---- MODULE Spec2Model ----
(***************************************************************************)
(* LinkBox server: the stream multiplexer of routers/ai_router.py, the     *)
(* agent-chat response generator that consumes it, the classification      *)
(* oracle (select) of ai_service.py / utils/langchain_tools.py, the        *)
(* two-stage resource resolver and the tag/resource store of crud/.         *)
(*                                                                         *)
(* Strings are tuples of one-character strings, so that lower(), split()   *)
(* strip() and the substring test are computed, not assumed.               *)
(***************************************************************************)
EXTENDS Integers, Sequences, FiniteSets, TLC

(***************************************************************************)
(* Bounds of the model                                                     *)
(***************************************************************************)
\* the sources of one merge yield at most MaxEvents events in total (an endless
\* source then stays suspended in its own await for ever, it never completes)
MaxEvents == 4

\* requests that change the store in one run (the tables grow by at most a few
\* rows per request; the tags table is also bounded by its unique index)
MaxOps == 3

\* longest list an oracle answer holds
MaxAnswerLen == 2

\* progress events the tools of one agent-chat request emit
MaxProgress == 2

\* merge_streams(*streams) is variadic: 1, 2 or 3 sources; index 0 is the primary
StreamCounts == {1, 2, 3}
StreamIdx == 0..2

VARIABLES
    \* ---- ai_chat_agent.generate_response --------------------------------
    gpc,                 \* "setup" | "merging" | "finished"
    sse,                 \* frames written to the outbound stream, in order
    \* ---- merge_streams ---------------------------------------------------
    n_streams,           \* len(streams)
    kind,                \* kind[i]: "finite" | "endless" source
    emitted,             \* emitted[i]: events source i has yielded so far
    tasks,               \* tasks[i]: "none" | "iter" | "cancelling" | "cancelled" | "done"
    queue,               \* the shared asyncio.Queue of (stream_index, event)
    active_streams,
    agent_stream_ended,
    mpc,                 \* "idle" | "loop" | "gather" | "returned" | "abandoned"
    early,               \* history: the early-termination rule has fired
    raised,              \* history: the sources that raised while they were iterated
    out                  \* history: events yielded by merge_streams, in order

VARIABLES
    \* ---- the store (models.py): committed rows --------------------------
    resources,           \* resources[id]: [user_id, url, title, is_deleted]
    tags,                \* tags[id]: [name, user_id, is_deleted]
    resource_tags,       \* set of [resource_id, tag_id, user_id, is_deleted]
    ops                  \* requests that have changed the store so far

VARIABLES
    \* ---- one call of select (the classification oracle) ------------------
    sel_pc,              \* "idle" | "ready" | "done" | "repeated"
    sel_mode,            \* "tags" | "resources"
    sel_query,           \* user_query
    sel_options,         \* available_tags, or resource_candidates
    sel_oracle,          \* what chain.invoke does on this call
    sel_result           \* [value, path, oracle_called]

selectVars == <<sel_pc, sel_mode, sel_query, sel_options, sel_oracle, sel_result>>

VARIABLES
    \* ---- one resolver invocation ------------------------------------------
    rpc,                 \* "idle" | "fetch_tags" | "select_tags" | "expand" |
                         \* "select_resources" | "resolve" | "done"
    variant,             \* "workflow" (resource_search_workflow) | "tool" (_arun)
    callback,            \* progress_callback: "none" | "ok" | "raises"
    r_user,              \* user_id
    r_query,             \* user_query
    r_tag_names,         \* tag_names
    r_selected_tags,     \* selected_tags
    r_next,              \* position of the expansion loop in selected_tags
    r_candidates,        \* resource_candidates: sequence of [id, title]
    r_cache,             \* resource_cache: the ids it has an entry for
    r_failed,            \* positions in selected_tags whose fetch raised (logged)
    r_stages,            \* the steps the invocation has run, as its log prints them
    r_oracle_calls,      \* number of chain.invoke calls made
    r_selected_ids,      \* selected_resource_ids
    r_final,             \* final_results (resource ids)
    r_outcome,           \* "none" | "returned" | "raised"
    r_progress           \* the notifications delivered to progress_callback

resolverVars == <<rpc, variant, callback, r_user, r_query, r_tag_names, r_selected_tags,
                  r_next, r_candidates, r_cache, r_failed, r_stages, r_oracle_calls,
                  r_selected_ids, r_final, r_outcome, r_progress>>

storeVars == <<resources, tags, resource_tags, ops>>

VARIABLES
    \* ---- the progress channels of the agent-chat requests ------------------
    tool_callback,       \* per request: the request whose queue its tools put to
    p_emitted,           \* per request: progress events its tools have emitted
    progress_queue,      \* per request: progress_queue, an unbounded FIFO
    ppc,                 \* per request: process_progress_stream is "none" |
                         \* "polling" | "yielding" | "ended" | "cancelled"
    consecutive_timeouts,\* per request: the counter of process_progress_stream
    delivered            \* history, per request: events its stream yielded

progressVars == <<tool_callback, p_emitted, progress_queue, ppc, consecutive_timeouts,
                  delivered>>

VARIABLES
    \* ---- what SearchResourcesTool._arun hands back for a resolved search ----
    t_pc,                \* "idle" | "resolved" | "returned"
    t_limit,             \* the limit argument
    t_final,             \* final_results
    t_event,             \* the resource event sent to the callback
    t_json               \* the JSON result returned to the agent

toolVars == <<t_pc, t_limit, t_final, t_event, t_json>>

vars == <<gpc, sse, n_streams, kind, emitted, tasks, queue, active_streams,
          agent_stream_ended, mpc, early, raised, out, resources, tags, resource_tags, ops,
          sel_pc, sel_mode, sel_query, sel_options, sel_oracle, sel_result,
          rpc, variant, callback, r_user, r_query, r_tag_names, r_selected_tags,
          r_next, r_candidates, r_cache, r_failed, r_stages, r_oracle_calls,
          r_selected_ids, r_final, r_outcome, r_progress,
          tool_callback, p_emitted, progress_queue, ppc, consecutive_timeouts, delivered,
          t_pc, t_limit, t_final, t_event, t_json>>

mergeVars == <<gpc, sse, n_streams, kind, emitted, tasks, queue, active_streams,
               agent_stream_ended, mpc, early, raised, out>>

(***************************************************************************)
(* Events                                                                  *)
(***************************************************************************)
\* the sentinel queue_events puts when its stream is over: (stream_index, None)
None == [src |-> -1, seq |-> 0, type |-> "None"]

\* the k-th event yielded by source i
Event(i, k) == [src |-> i, seq |-> k, type |-> "event"]

\* {"type": "error", "message": str(e)} put by queue_events for source i
ErrorEvent(i) == [src |-> i, seq |-> 0, type |-> "error"]

\* {"type": "error", "message": str(e)} written by generate_response's handler
GeneratorError == [src |-> -1, seq |-> 0, type |-> "error"]

\* {"type": "done"}
DoneFrame == [src |-> -1, seq |-> 0, type |-> "done"]

Streams == 0..(n_streams - 1)

(***************************************************************************)
(* Sequence helpers                                                        *)
(***************************************************************************)
RECURSIVE SelectSeqBy(_, _)
\* the subsequence of s whose elements have src = i
SelectSeqBy(s, i) ==
    IF s = <<>> THEN <<>>
    ELSE IF Head(s).src = i THEN <<Head(s)>> \o SelectSeqBy(Tail(s), i)
         ELSE SelectSeqBy(Tail(s), i)

IsPrefix(s, t) == Len(s) <= Len(t) /\ SubSeq(t, 1, Len(s)) = s

Range(s) == {s[k] : k \in 1..Len(s)}

NoDup(s) == \A a, b \in 1..Len(s) : a # b => s[a] # s[b]

TotalEmitted == emitted[0] + emitted[1] + emitted[2]

\* what source i has produced so far, in the order it produced it
Produced(i) == [k \in 1..emitted[i] |-> Event(i, k)]


(***************************************************************************)
(* Strings: tuples of characters                                           *)
(***************************************************************************)
\* str.lower() on one character
LowerChar(c) == CASE c = "A" -> "a" [] c = "B" -> "b" [] OTHER -> c

\* str.lower()
Lower(s) == [k \in 1..Len(s) |-> LowerChar(s[k])]

IsSpace(c) == c = " "

RECURSIVE LStrip(_)
LStrip(s) == IF s # <<>> /\ IsSpace(Head(s)) THEN LStrip(Tail(s)) ELSE s

RECURSIVE RStrip(_)
RStrip(s) == IF s # <<>> /\ IsSpace(s[Len(s)]) THEN RStrip(SubSeq(s, 1, Len(s) - 1)) ELSE s

\* str.strip()
Strip(s) == RStrip(LStrip(s))

\* str.split(): the maximal runs of non-space characters, in order
RECURSIVE SplitFrom(_, _)
SplitFrom(s, cur) ==
    IF s = <<>> THEN (IF cur = <<>> THEN <<>> ELSE <<cur>>)
    ELSE IF IsSpace(Head(s))
         THEN (IF cur = <<>> THEN <<>> ELSE <<cur>>) \o SplitFrom(Tail(s), <<>>)
         ELSE SplitFrom(Tail(s), Append(cur, Head(s)))

Split(s) == SplitFrom(s, <<>>)

\* needle in hay (Python's substring test)
Contains(hay, needle) ==
    \E k \in 0..(Len(hay) - Len(needle)) : SubSeq(hay, k + 1, k + Len(needle)) = needle

\* code points, for ORDER BY name
Code(c) == CASE c = " " -> 32 [] c = "A" -> 65 [] c = "B" -> 66 [] c = "a" -> 97
             [] c = "b" -> 98 [] c = "c" -> 99 [] OTHER -> 120

RECURSIVE StrLess(_, _)
StrLess(s, t) ==
    IF t = <<>> THEN FALSE
    ELSE IF s = <<>> THEN TRUE
    ELSE IF Code(Head(s)) # Code(Head(t)) THEN Code(Head(s)) < Code(Head(t))
    ELSE StrLess(Tail(s), Tail(t))

\* the first n entries of s (a slice s[:n], a LIMIT n)
Take(s, n) == SubSeq(s, 1, IF Len(s) < n THEN Len(s) ELSE n)

(***************************************************************************)
(* The store: models.py and crud/                                          *)
(***************************************************************************)
Users == {1, 2}
Urls == {"u1"}
Titles == {<<"a">>, <<"B">>}
\* tag names as the callers give them (strip() is applied by the crud layer)
TagInputs == {<<"a">>, <<" ", "b">>, <<" ">>}
\* the tags argument of create_resource and update_resource: no tag, one tag,
\* two tags in both orders, the same tag twice, a blank name
TagLists == {<<>>, <<<<"a">>>>, <<<<" ", "b">>>>, <<<<"a">>, <<" ", "b">>>>,
             <<<<" ", "b">>, <<"a">>>>, <<<<"a">>, <<"a">>>>, <<<<" ">>, <<"a">>>>}

\* an optional argument: None (not given) or a value
NotGiven == [given |-> FALSE, value |-> <<>>]
Given(v) == [given |-> TRUE, value |-> v]

\* a database state: the three tables
Db(r, t, rt) == [resources |-> r, tags |-> t, resource_tags |-> rt]

CurrentDb == Db(resources, tags, resource_tags)

\* get_tag_by_name: the id of the user's non-deleted tag of that name, 0 if none
get_tag_by_name(db, user_id, tag_name) ==
    LET hits == {k \in 1..Len(db.tags) :
                    /\ db.tags[k].user_id = user_id
                    /\ db.tags[k].name = tag_name
                    /\ ~db.tags[k].is_deleted}
    IN IF hits = {} THEN 0 ELSE CHOOSE k \in hits : \A j \in hits : k <= j

\* a tags table without the unique index
TagInsertNeverRejected(db, user_id, tag_name) == FALSE

\* Index("unique_user_tag", "user_id", "name", unique=True): an insert of
\* (user_id, name) is rejected when any row, deleted or not, holds the pair
TagInsertRejected(db, user_id, tag_name) ==
    \E k \in 1..Len(db.tags) : db.tags[k].user_id = user_id /\ db.tags[k].name = tag_name

\* Index("unique_resource_tag", "resource_id", "tag_id", unique=True): the
\* pending association rows cannot be flushed
PendingRejected(db, pend) ==
    \/ \E a, b \in 1..Len(pend) :
          a # b /\ pend[a].resource_id = pend[b].resource_id /\ pend[a].tag_id = pend[b].tag_id
    \/ \E a \in 1..Len(pend) : \E rt \in db.resource_tags :
          rt.resource_id = pend[a].resource_id /\ rt.tag_id = pend[a].tag_id

\* db.commit() of a transaction that holds the working state w and the pending
\* association rows pend: all of it, or (IntegrityError) none of it
Commit(db, w, pend) ==
    IF PendingRejected(w, pend)
    THEN [db |-> db, ok |-> FALSE]
    ELSE [db |-> [w EXCEPT !.resource_tags = @ \cup Range(pend)], ok |-> TRUE]

\* create_tag_if_not_exists inside a transaction (committed db, working state
\* w, pending rows): the tag found, or a new tag committed with everything
\* pending, or IntegrityError (ok = FALSE, the transaction is rolled back)
create_tag_if_not_exists(db, w, pend, user_id, tag_name) ==
    LET name == Strip(tag_name)
        existing == get_tag_by_name(w, user_id, name)
    IN IF existing # 0
       THEN [db |-> db, w |-> w, pend |-> pend, tag_id |-> existing, ok |-> TRUE]
       ELSE IF TagInsertRejected(w, user_id, name) \/ PendingRejected(w, pend)
            THEN [db |-> db, w |-> db, pend |-> <<>>, tag_id |-> 0, ok |-> FALSE]
            ELSE LET w2 == [w EXCEPT
                              !.tags = Append(@, [name |-> name, user_id |-> user_id,
                                                  is_deleted |-> FALSE]),
                              !.resource_tags = @ \cup Range(pend)]
                 IN [db |-> w2, w |-> w2, pend |-> <<>>, tag_id |-> Len(w2.tags), ok |-> TRUE]

\* create_resource, "for tag_name in tags": the state committed when the loop
\* and the final db.commit() are over, and whether they ended without raising
RECURSIVE CreateResourceTags(_, _, _, _, _)
CreateResourceTags(db, pend, resource_id, user_id, names) ==
    IF names = <<>>
    THEN Commit(db, db, pend)
    ELSE LET tag_name == Strip(Head(names))
         IN IF tag_name = <<>>
            THEN CreateResourceTags(db, pend, resource_id, user_id, Tail(names))
            ELSE LET r == create_tag_if_not_exists(db, db, pend, user_id, tag_name)
                 IN IF ~r.ok
                    THEN [db |-> r.db, ok |-> FALSE]
                    ELSE CreateResourceTags(
                             r.db,
                             Append(r.pend, [resource_id |-> resource_id, tag_id |-> r.tag_id,
                                             user_id |-> user_id, is_deleted |-> FALSE]),
                             resource_id, user_id, Tail(names))

\* create_resource: the existing non-deleted row of (user_id, url), if any
ExistingResource(db, user_id, url) ==
    {k \in 1..Len(db.resources) :
        /\ db.resources[k].user_id = user_id
        /\ db.resources[k].url = url
        /\ ~db.resources[k].is_deleted}

\* create_resource(db, url, title, digest, tags, user_id)
create_resource_result(db, url, title, tag_names, user_id) ==
    IF ExistingResource(db, user_id, url) # {}
    THEN [db |-> db, ok |-> FALSE]
    ELSE LET db1 == [db EXCEPT !.resources =
                        Append(@, [user_id |-> user_id, url |-> url, title |-> title,
                                   is_deleted |-> FALSE])]
         IN CreateResourceTags(db1, <<>>, Len(db1.resources), user_id, tag_names)

\* a lookup by id that does not compare the row's owner with the user
get_resource_by_id_any_owner(db, resource_id, user_id) ==
    IF /\ resource_id \in 1..Len(db.resources)
       /\ ~db.resources[resource_id].is_deleted
    THEN resource_id ELSE 0

\* get_resource_by_id: the id when the row is the user's and not deleted, else 0
get_resource_by_id(db, resource_id, user_id) ==
    IF /\ resource_id \in 1..Len(db.resources)
       /\ db.resources[resource_id].user_id = user_id
       /\ ~db.resources[resource_id].is_deleted
    THEN resource_id ELSE 0

\* get_tags_by_resource: ids of the non-deleted tags tied to the resource by a
\* non-deleted association row of the user
get_tags_by_resource(db, resource_id, user_id) ==
    {k \in 1..Len(db.tags) :
        /\ ~db.tags[k].is_deleted
        /\ \E rt \in db.resource_tags :
              /\ rt.resource_id = resource_id /\ rt.user_id = user_id
              /\ ~rt.is_deleted /\ rt.tag_id = k}

\* the association rows of s with is_deleted set to v in the rows of hit
SetDeleted(s, hit, v) ==
    {IF rt \in hit THEN [rt EXCEPT !.is_deleted = v] ELSE rt : rt \in s}

\* the orders in which a Python set may be iterated
Orders(S) == {p \in [1..Cardinality(S) -> S] : Range(p) = S}

\* update_resource, "for tag_name in tags_to_add" and the final db.commit()
RECURSIVE UpdateResourceTags(_, _, _, _, _, _)
UpdateResourceTags(db, w, pend, resource_id, user_id, names) ==
    IF names = <<>>
    THEN Commit(db, w, pend)
    ELSE LET r == create_tag_if_not_exists(db, w, pend, user_id, Head(names))
             Same(rt) == /\ rt.resource_id = resource_id
                         /\ rt.tag_id = r.tag_id
                         /\ rt.user_id = user_id
             existing_relation == {rt \in r.w.resource_tags : Same(rt)}
         IN IF ~r.ok
            THEN [db |-> r.db, ok |-> FALSE]
            ELSE IF existing_relation # {}
                 THEN UpdateResourceTags(
                          r.db,
                          [r.w EXCEPT !.resource_tags = SetDeleted(@, {x \in @ : Same(x)}, FALSE)],
                          r.pend, resource_id, user_id, Tail(names))
                 ELSE UpdateResourceTags(
                          r.db, r.w,
                          Append(r.pend, [resource_id |-> resource_id, tag_id |-> r.tag_id,
                                          user_id |-> user_id, is_deleted |-> FALSE]),
                          resource_id, user_id, Tail(names))

\* update_resource: the tag names the resource has now
CurrentTagNames(db, resource_id, user_id) ==
    {db.tags[k].name : k \in get_tags_by_resource(db, resource_id, user_id)}

\* update_resource: the tag names asked for, stripped, the empty ones dropped
NewTagNames(tag_names) ==
    IF ~tag_names.given THEN {} ELSE {Strip(x) : x \in Range(tag_names.value)} \ {<<>>}

\* update_resource(db, resource_id, user_id, title, digest, tags), the tags to
\* add taken in the order add_order; found = FALSE when it returns None
update_resource_result(db, resource_id, user_id, title, tag_names, add_order) ==
    IF get_resource_by_id(db, resource_id, user_id) = 0
    THEN [db |-> db, ok |-> TRUE, found |-> FALSE]
    ELSE LET w0 == IF ~title.given THEN db
                   ELSE [db EXCEPT !.resources[resource_id].title = title.value]
             tags_to_remove == CurrentTagNames(db, resource_id, user_id) \ NewTagNames(tag_names)
             Removed(rt) ==
                 /\ rt.resource_id = resource_id
                 /\ rt.user_id = user_id
                 /\ db.tags[rt.tag_id].name \in tags_to_remove
                 /\ db.tags[rt.tag_id].user_id = user_id
             w1 == IF tag_names.given /\ tags_to_remove # {}
                   THEN [w0 EXCEPT !.resource_tags = SetDeleted(@, {x \in @ : Removed(x)}, TRUE)]
                   ELSE w0
             r == IF ~tag_names.given
                  THEN Commit(db, w1, <<>>)
                  ELSE UpdateResourceTags(db, w1, <<>>, resource_id, user_id, add_order)
         IN [db |-> r.db, ok |-> r.ok, found |-> TRUE]

\* delete_resource(db, resource_id, user_id)
delete_resource_result(db, resource_id, user_id) ==
    IF get_resource_by_id(db, resource_id, user_id) = 0
    THEN db
    ELSE LET Hit(rt) == rt.resource_id = resource_id /\ rt.user_id = user_id
         IN [db EXCEPT !.resources[resource_id].is_deleted = TRUE,
                       !.resource_tags = SetDeleted(@, {x \in @ : Hit(x)}, TRUE)]

\* create_tag(db, user_id, tag_name)
create_tag_result(db, user_id, tag_name) ==
    LET name == Strip(tag_name)
    IN IF name = <<>> \/ get_tag_by_name(db, user_id, name) # 0
       THEN [db |-> db, ok |-> FALSE]
       ELSE IF TagInsertRejected(db, user_id, name)
            THEN [db |-> db, ok |-> FALSE]
            ELSE [db |-> [db EXCEPT !.tags = Append(@, [name |-> name, user_id |-> user_id,
                                                         is_deleted |-> FALSE])],
                  ok |-> TRUE]

\* delete_tag(db, tag_id, user_id)
delete_tag_result(db, tag_id, user_id) ==
    IF ~(/\ tag_id \in 1..Len(db.tags)
         /\ db.tags[tag_id].user_id = user_id
         /\ ~db.tags[tag_id].is_deleted)
    THEN db
    ELSE LET Hit(rt) == rt.tag_id = tag_id /\ rt.user_id = user_id /\ ~rt.is_deleted
         IN [db EXCEPT !.tags[tag_id].is_deleted = TRUE,
                       !.resource_tags = SetDeleted(@, {x \in @ : Hit(x)}, TRUE)]

\* ORDER BY name: the tag ids in S, ascending by the tag's name
RECURSIVE OrderByName(_, _)
OrderByName(db, S) ==
    IF S = {} THEN <<>>
    ELSE LET m == CHOOSE x \in S : \A y \in S \ {x} :
                      \/ StrLess(db.tags[x].name, db.tags[y].name)
                      \/ (db.tags[x].name = db.tags[y].name /\ x < y)
         IN <<m>> \o OrderByName(db, S \ {m})

\* ORDER BY created_at DESC: the resource ids in S, newest (largest id) first
RECURSIVE OrderNewestFirst(_)
OrderNewestFirst(S) ==
    IF S = {} THEN <<>>
    ELSE LET m == CHOOSE x \in S : \A y \in S : x >= y
         IN <<m>> \o OrderNewestFirst(S \ {m})

\* a read of the user's tags that does not look at is_deleted
get_user_tags_with_deleted(db, user_id) ==
    OrderByName(db, {k \in 1..Len(db.tags) : db.tags[k].user_id = user_id})

\* get_user_tags: the user's non-deleted tags, ORDER BY name (tag ids)
get_user_tags(db, user_id) ==
    OrderByName(db, {k \in 1..Len(db.tags) :
                        db.tags[k].user_id = user_id /\ ~db.tags[k].is_deleted})

\* a first query that does not look at is_deleted
AssociationSelectedWithDeleted(x, tag, user_id) == x.tag_id = tag /\ x.user_id = user_id

\* the rows get_resources_by_tag's first query selects: by tag, owner and
\* is_deleted
AssociationSelected(x, tag, user_id) ==
    x.tag_id = tag /\ x.user_id = user_id /\ ~x.is_deleted

\* the rows get_resources_by_tag's second query selects: by id and is_deleted
ResourceRowSelected(db, user_id, ids, k) ==
    k \in ids /\ ~db.resources[k].is_deleted

\* get_resources_by_tag(db, user_id, tag_name, page=1, size): resource ids,
\* newest first (ids are handed out in creation order)
get_resources_by_tag(db, user_id, tag_name, size) ==
    LET tag == get_tag_by_name(db, user_id, tag_name)
        resource_ids == {rt.resource_id : rt \in
                           {x \in db.resource_tags : AssociationSelected(x, tag, user_id)}}
        rows == {k \in 1..Len(db.resources) : ResourceRowSelected(db, user_id, resource_ids, k)}
    IN IF tag = 0 THEN <<>> ELSE Take(OrderNewestFirst(rows), size)

(***************************************************************************)
(* The classification oracle: _select_relevant_tags and                    *)
(* _select_matching_resources (ai_service.py; the same code, awaited, in   *)
(* SearchResourcesTool of utils/langchain_tools.py)                        *)
(***************************************************************************)
\* What chain.invoke (prompt | llm | parser) does on one call:
\*   raise      it raises (network error, timeout, output that is no JSON)
\*   dict       a mapping that carries the selection field
\*   dict_nokey a mapping without the selection field
\*   object     an object with the selection attribute
\*   other      a value that is neither (a JSON list, string or number)
\* iterable = FALSE: the field holds a value that cannot be iterated (null)
OracleResult(k, it, v) == [kind |-> k, iterable |-> it, value |-> v]

SeqsUpTo(S, n) == UNION {[1..m -> S] : m \in 0..n}

OracleResults(S) ==
    {OracleResult("raise", TRUE, <<>>), OracleResult("other", TRUE, <<>>),
     OracleResult("dict_nokey", TRUE, <<>>), OracleResult("dict", FALSE, <<>>)}
    \cup {OracleResult(k, TRUE, v) : k \in {"dict", "object"}, v \in SeqsUpTo(S, MaxAnswerLen)}

\* the list read from the oracle's result: result.get(field, []), result.field, or []
SelectedOf(oracle) ==
    CASE oracle.kind = "dict" -> oracle.value
      [] oracle.kind = "object" -> oracle.value
      [] OTHER -> <<>>

\* the try block raises: chain.invoke raises, or the list read cannot be iterated
TryRaises(oracle) ==
    \/ oracle.kind = "raise"
    \/ oracle.kind \in {"dict", "object"} /\ ~oracle.iterable

\* a keyword test that leaves the text as it is written
KeywordMatchCaseSensitive(user_query, text) ==
    \E k \in 1..Len(Split(Lower(user_query))) : Contains(text, Split(Lower(user_query))[k])

\* any(keyword in text.lower() for keyword in user_query.lower().split())
KeywordMatch(user_query, text) ==
    \E k \in 1..Len(Split(Lower(user_query))) :
        Contains(Lower(text), Split(Lower(user_query))[k])

\* the selection returned as it came from the oracle
UnfilteredTags(selected_tags, available_tags) == selected_tags

\* valid_tags = [tag for tag in selected_tags if tag in available_tags]
ValidTags(selected_tags, available_tags) ==
    LET Known(tag) == tag \in Range(available_tags)
    IN SelectSeq(selected_tags, Known)

\* fallback_tags[:3]
TagFallbackCap == 3

\* an except branch that returns every matching tag
TagFallbackUncut(user_query, available_tags) ==
    LET Hit(tag) == KeywordMatch(user_query, tag)
    IN SelectSeq(available_tags, Hit)

\* the except branch of _select_relevant_tags
TagFallback(user_query, available_tags) ==
    LET Hit(tag) == KeywordMatch(user_query, tag)
    IN Take(SelectSeq(available_tags, Hit), TagFallbackCap)

\* a tag selection that asks the oracle about an empty list too
select_relevant_tags_unguarded(user_query, available_tags, oracle) ==
    IF TryRaises(oracle)
    THEN [value |-> TagFallback(user_query, available_tags),
          path |-> "fallback", oracle_called |-> TRUE]
    ELSE [value |-> ValidTags(SelectedOf(oracle), available_tags),
          path |-> "oracle", oracle_called |-> TRUE]

\* _select_relevant_tags(user_query, available_tags)
select_relevant_tags(user_query, available_tags, oracle) ==
    IF available_tags = <<>>
    THEN [value |-> <<>>, path |-> "empty", oracle_called |-> FALSE]
    ELSE IF TryRaises(oracle)
         THEN [value |-> TagFallback(user_query, available_tags),
               path |-> "fallback", oracle_called |-> TRUE]
         ELSE [value |-> ValidTags(SelectedOf(oracle), available_tags),
               path |-> "oracle", oracle_called |-> TRUE]

\* candidate_ids = [r["id"] for r in resource_candidates]
CandidateIds(resource_candidates) ==
    [k \in 1..Len(resource_candidates) |-> resource_candidates[k].id]

\* the ids returned as they came from the oracle
UnfilteredIds(selected_ids, resource_candidates) == selected_ids

\* for resource_id in selected_ids: if resource_id in candidate_ids: append
ValidIds(selected_ids, resource_candidates) ==
    LET Known(resource_id) == resource_id \in Range(CandidateIds(resource_candidates))
    IN SelectSeq(selected_ids, Known)

\* the except branch of _select_matching_resources
ResourceFallback(user_query, resource_candidates) ==
    LET Hit(resource) == KeywordMatch(user_query, resource.title)
    IN CandidateIds(SelectSeq(resource_candidates, Hit))

\* _select_matching_resources(user_query, resource_candidates)
select_matching_resources(user_query, resource_candidates, oracle) ==
    IF resource_candidates = <<>>
    THEN [value |-> <<>>, path |-> "empty", oracle_called |-> FALSE]
    ELSE IF TryRaises(oracle)
         THEN [value |-> ResourceFallback(user_query, resource_candidates),
               path |-> "fallback", oracle_called |-> TRUE]
         ELSE [value |-> ValidIds(SelectedOf(oracle), resource_candidates),
               path |-> "oracle", oracle_called |-> TRUE]

(***************************************************************************)
(* One call of select on inputs drawn from small sets                      *)
(***************************************************************************)
Queries == {<<"a">>, <<"A", " ", "b">>, <<" ">>, <<"x">>}

\* tag names a user may own, and a name no user owns
SelTagNames == {<<"a">>, <<"a", "b">>, <<"B">>, <<"b", "a">>, <<"c">>}
UnknownTag == <<"x", "x">>

\* the tag names in S as get_user_tags returns them: ORDER BY name
RECURSIVE SortedNames(_)
SortedNames(S) ==
    IF S = {} THEN <<>>
    ELSE LET m == CHOOSE x \in S : \A y \in S \ {x} : StrLess(x, y)
         IN <<m>> \o SortedNames(S \ {m})

TagOptionLists == {SortedNames(S) : S \in SUBSET SelTagNames}

\* candidate lists: distinct ids, newest first, any titles
SelIds == 1..4
UnknownId == 9
CandidateLists ==
    {[k \in 1..Len(ids) |-> [id |-> ids[k], title |-> t[k]]] :
        ids \in {OrderNewestFirst(S) : S \in SUBSET SelIds}, t \in [SelIds -> Titles]}

\* no call of select is in progress
SelectIdle ==
    /\ sel_pc = "idle"
    /\ sel_mode = "tags"
    /\ sel_query = <<>>
    /\ sel_options = <<>>
    /\ sel_oracle = OracleResult("raise", TRUE, <<>>)
    /\ sel_result = [value |-> <<>>, path |-> "none", oracle_called |-> FALSE]

SelectInit ==
    /\ sel_pc = "ready"
    /\ sel_query \in Queries
    /\ sel_mode \in {"tags", "resources"}
    /\ sel_options \in IF sel_mode = "tags" THEN TagOptionLists ELSE CandidateLists
    /\ sel_oracle \in IF sel_mode = "tags"
                      THEN OracleResults({<<"a">>, <<"B">>, UnknownTag})
                      ELSE OracleResults({1, 2, UnknownId})
    /\ sel_result = [value |-> <<>>, path |-> "none", oracle_called |-> FALSE]

SelectTags ==
    /\ sel_pc = "ready" /\ sel_mode = "tags"
    /\ sel_result' = select_relevant_tags(sel_query, sel_options, sel_oracle)
    /\ sel_pc' = "done"
    /\ UNCHANGED <<sel_mode, sel_query, sel_options, sel_oracle>>
    /\ UNCHANGED <<storeVars, resolverVars, mergeVars, progressVars, toolVars>>

SelectResources ==
    /\ sel_pc = "ready" /\ sel_mode = "resources"
    /\ sel_result' = select_matching_resources(sel_query, sel_options, sel_oracle)
    /\ sel_pc' = "done"
    /\ UNCHANGED <<sel_mode, sel_query, sel_options, sel_oracle>>
    /\ UNCHANGED <<storeVars, resolverVars, mergeVars, progressVars, toolVars>>

\* the caller calls select once more with the same query and options; the
\* oracle answers as it likes
SelectRepeat ==
    /\ sel_pc = "done"
    /\ \E oracle \in IF sel_mode = "tags"
                      THEN OracleResults({<<"a">>, <<"B">>, UnknownTag})
                      ELSE OracleResults({1, 2, UnknownId}) :
          /\ sel_oracle' = oracle
          /\ sel_result' = IF sel_mode = "tags"
                           THEN select_relevant_tags(sel_query, sel_options, oracle)
                           ELSE select_matching_resources(sel_query, sel_options, oracle)
    /\ sel_pc' = "repeated"
    /\ UNCHANGED <<sel_mode, sel_query, sel_options>>
    /\ UNCHANGED <<storeVars, resolverVars, mergeVars, progressVars, toolVars>>

(***************************************************************************)
(* Requests against the store                                              *)
(***************************************************************************)
\* the request leaves db committed; a request that changed nothing is not counted
SetDb(db) ==
    /\ ops < MaxOps
    /\ db # CurrentDb
    /\ resources' = db.resources
    /\ tags' = db.tags
    /\ resource_tags' = db.resource_tags
    /\ ops' = ops + 1
    /\ UNCHANGED <<resolverVars, selectVars, mergeVars, progressVars, toolVars>>

create_resource ==
    /\ rpc = "idle"
    /\ \E user_id \in Users, url \in Urls, title \in Titles, tag_names \in TagLists :
           LET r == create_resource_result(CurrentDb, url, title, tag_names, user_id)
           IN SetDb(r.db)

update_resource ==
    /\ rpc = "idle"
    /\ \E user_id \in Users, resource_id \in 1..Len(resources),
          title \in {NotGiven} \cup {Given(t) : t \in Titles},
          tag_names \in {NotGiven} \cup {Given(l) : l \in TagLists} :
           \E add_order \in Orders(NewTagNames(tag_names)
                                     \ CurrentTagNames(CurrentDb, resource_id, user_id)) :
               LET r == update_resource_result(CurrentDb, resource_id, user_id, title,
                                               tag_names, add_order)
               IN SetDb(r.db)

delete_resource ==
    /\ rpc = "idle"
    /\ \E user_id \in Users, resource_id \in 1..Len(resources) :
           SetDb(delete_resource_result(CurrentDb, resource_id, user_id))

create_tag ==
    /\ rpc = "idle"
    /\ \E user_id \in Users, tag_name \in TagInputs :
           LET r == create_tag_result(CurrentDb, user_id, tag_name)
           IN SetDb(r.db)

delete_tag ==
    /\ rpc = "idle"
    /\ \E user_id \in Users, tag_id \in 1..Len(tags) :
           SetDb(delete_tag_result(CurrentDb, tag_id, user_id))

\* db.add(Tag(...)); db.commit() of create_tag or create_tag_if_not_exists
\* whose get_tag_by_name ran before another request committed: only the
\* unique index stands between the insert and the table
insert_tag_result(db, user_id, tag_name) ==
    LET name == Strip(tag_name)
    IN IF name = <<>> \/ TagInsertRejected(db, user_id, name)
       THEN db
       ELSE [db EXCEPT !.tags = Append(@, [name |-> name, user_id |-> user_id,
                                           is_deleted |-> FALSE])]

create_tag_concurrent ==
    /\ rpc = "idle"
    /\ \E user_id \in Users, tag_name \in TagInputs :
           SetDb(insert_tag_result(CurrentDb, user_id, tag_name))

StoreInit ==
    /\ resources = <<>>
    /\ tags = <<>>
    /\ resource_tags = {}
    /\ ops = 0

StoreNext ==
    \/ create_resource
    \/ update_resource
    \/ delete_resource
    \/ create_tag
    \/ delete_tag

(***************************************************************************)
(* The resolver: resource_search_workflow (ai_service.py) and              *)
(* SearchResourcesTool._arun (utils/langchain_tools.py)                    *)
(***************************************************************************)
\* An invocation reads the store through one database session that it never
\* commits: every query of the invocation sees the rows as they were at its
\* first query, so requests that change the store are taken between
\* invocations (SetDb).
ResolverQueries == {<<"a">>}

\* get_resources_by_tag(..., page=1, size=100)
PageSize == 100

\* progress_callback(message) / emit_progress(step, message): the notification
\* is delivered when a callback is attached
Emit(progress, step) == IF callback = "ok" THEN Append(progress, step) ELSE progress

\* a test that takes no list for empty
NeverEmptyList(l) == FALSE

\* if not user_tags: / if not selected_tags: / if not resource_candidates: ...
IsEmptyList(l) == l = <<>>

\* a return that reports completion whatever was reported before
ReturnCompleted(progress, final_results) ==
    /\ rpc' = "done"
    /\ r_outcome' = "returned"
    /\ r_final' = final_results
    /\ r_progress' = Emit(progress, "completed")

\* the invocation returns final_results
Return(progress, final_results) ==
    /\ rpc' = "done"
    /\ r_outcome' = "returned"
    /\ r_final' = final_results
    /\ r_progress' = progress

\* except Exception: the workflow returns []; the tool first awaits
\* emit_progress("error", ...), which raises again when the callback does,
\* and then returns the error JSON
Handler ==
    /\ rpc' = "done"
    /\ r_final' = <<>>
    /\ r_outcome' = IF variant = "tool" /\ callback = "raises" THEN "raised" ELSE "returned"
    /\ r_progress' = IF variant = "tool" THEN Emit(r_progress, "error") ELSE r_progress
    \* the locals of the try block are dropped
    /\ r_tag_names' = <<>>
    /\ r_selected_tags' = <<>>
    /\ r_next' = 1
    /\ r_candidates' = <<>>
    /\ r_cache' = {}
    /\ r_failed' = {}
    /\ r_selected_ids' = <<>>

\* the values a run starts from
ResolverIdle ==
    /\ rpc = "idle"
    /\ variant = "workflow"
    /\ callback = "none"
    /\ r_user = 1
    /\ r_query = <<>>
    /\ r_tag_names = <<>>
    /\ r_selected_tags = <<>>
    /\ r_next = 1
    /\ r_candidates = <<>>
    /\ r_cache = {}
    /\ r_failed = {}
    /\ r_stages = <<>>
    /\ r_oracle_calls = 0
    /\ r_selected_ids = <<>>
    /\ r_final = <<>>
    /\ r_outcome = "none"
    /\ r_progress = <<>>

\* the caller invokes the resolver
ResolverStart ==
    /\ rpc = "idle"
    /\ rpc' = "fetch_tags"
    /\ variant' \in {"workflow", "tool"}
    /\ callback' \in {"none", "ok", "raises"}
    /\ r_user' \in Users
    /\ r_query' \in ResolverQueries
    /\ UNCHANGED <<r_tag_names, r_selected_tags, r_next, r_candidates, r_cache, r_failed,
                   r_stages, r_oracle_calls, r_selected_ids, r_final, r_outcome, r_progress>>
    /\ UNCHANGED <<storeVars, selectVars, mergeVars, progressVars, toolVars>>

\* tag_names = [tag.name for tag in user_tags]
TagNames(db, user_tags) == [k \in 1..Len(user_tags) |-> db.tags[user_tags[k]].name]

\* step 1: the first notification, get_user_tags, the second notification
ResolverFetchTags ==
    /\ rpc = "fetch_tags"
    /\ IF callback = "raises"
       THEN /\ Handler
            /\ UNCHANGED <<r_stages, r_oracle_calls>>
       ELSE LET user_tags == get_user_tags(CurrentDb, r_user)
            IN /\ IF IsEmptyList(user_tags)
                  THEN /\ Return(Emit(Emit(r_progress, "analyzing"), "no_tags"), <<>>)
                       /\ UNCHANGED r_tag_names
                  ELSE /\ rpc' = "select_tags"
                       /\ r_tag_names' = TagNames(CurrentDb, user_tags)
                       /\ r_progress' = Emit(Emit(r_progress, "analyzing"), "intent")
                       /\ UNCHANGED <<r_final, r_outcome>>
               /\ r_stages' = Append(r_stages, "FETCH_TAGS")
               /\ UNCHANGED <<r_selected_tags, r_next, r_candidates, r_cache, r_failed,
                              r_oracle_calls, r_selected_ids>>
    /\ UNCHANGED <<variant, callback, r_user, r_query>>
    /\ UNCHANGED <<storeVars, selectVars, mergeVars, progressVars, toolVars>>

\* the answers the oracle may give when asked to choose among options
OracleAnswers(options, unknown) ==
    {OracleResult("raise", TRUE, <<>>), OracleResult("other", TRUE, <<>>)}
    \cup {OracleResult("dict", TRUE, v) : v \in SeqsUpTo(options \cup {unknown}, MaxAnswerLen)}

\* chain.invoke calls made by one call of a select function
OracleCalls(call) == IF call.oracle_called THEN 1 ELSE 0

\* step 2: _select_relevant_tags
ResolverSelectTags ==
    /\ rpc = "select_tags"
    /\ \E oracle \in OracleAnswers(Range(r_tag_names), UnknownTag) :
        LET call == select_relevant_tags(r_query, r_tag_names, oracle)
            selected_tags == call.value
        IN /\ r_oracle_calls' = r_oracle_calls + OracleCalls(call)
           /\ IF IsEmptyList(selected_tags)
              THEN /\ Return(Emit(r_progress, "no_matching_tags"), <<>>)
                   /\ UNCHANGED <<r_selected_tags, r_next>>
              ELSE /\ rpc' = "expand"
                   /\ r_selected_tags' = selected_tags
                   /\ r_next' = 1
                   /\ r_progress' = Emit(Emit(r_progress, "tags"), "searching")
                   /\ UNCHANGED <<r_final, r_outcome>>
    /\ r_stages' = Append(r_stages, "SELECT_TAGS")
    /\ UNCHANGED <<variant, callback, r_user, r_query, r_tag_names, r_candidates, r_cache,
                   r_failed, r_selected_ids>>
    /\ UNCHANGED <<storeVars, selectVars, mergeVars, progressVars, toolVars>>

\* a candidate list that takes every resource as new
NeverCandidate(candidates, resource_id) == FALSE

\* any(r["id"] == resource.id for r in resource_candidates)
AlreadyCandidate(candidates, resource_id) ==
    \E k \in 1..Len(candidates) : candidates[k].id = resource_id

\* for item in resources_data: append the resources not yet among the candidates
RECURSIVE AddCandidates(_, _, _)
AddCandidates(db, candidates, resources_data) ==
    IF resources_data = <<>> THEN candidates
    ELSE LET resource_id == Head(resources_data)
         IN AddCandidates(db,
                IF AlreadyCandidate(candidates, resource_id)
                THEN candidates
                ELSE Append(candidates,
                            [id |-> resource_id, title |-> db.resources[resource_id].title]),
                Tail(resources_data))

\* resource_cache[resource.id] = resource, for the resources that were appended
AddCached(cache, candidates, resources_data) ==
    cache \cup {resources_data[k] : k \in
                  {j \in 1..Len(resources_data) :
                      ~AlreadyCandidate(candidates, resources_data[j])}}

\* the expansion loop moves to the next selected tag, or, after the last one,
\* to step 4 (or returns when there is no candidate)
ExpandAdvance(candidates) ==
    IF r_next < Len(r_selected_tags)
    THEN /\ r_next' = r_next + 1
         /\ UNCHANGED <<rpc, r_final, r_outcome, r_progress>>
    ELSE /\ r_next' = r_next + 1
         /\ IF IsEmptyList(candidates)
            THEN Return(Emit(r_progress, "no_candidates"), <<>>)
            ELSE /\ rpc' = "select_resources"
                 /\ r_progress' = Emit(r_progress, "candidates")
                 /\ UNCHANGED <<r_final, r_outcome>>

\* print("[步骤3] ..."), once, before the loop over selected_tags
EnterExpand(stages) == IF r_next = 1 THEN Append(stages, "EXPAND_TAGS") ELSE stages

\* step 3, one selected tag whose resources are fetched
ResolverExpandTag ==
    /\ rpc = "expand"
    /\ LET resources_data == get_resources_by_tag(CurrentDb, r_user,
                                                  r_selected_tags[r_next], PageSize)
           candidates == AddCandidates(CurrentDb, r_candidates, resources_data)
       IN /\ r_candidates' = candidates
          /\ r_cache' = AddCached(r_cache, r_candidates, resources_data)
          /\ ExpandAdvance(candidates)
    /\ r_stages' = EnterExpand(r_stages)
    /\ UNCHANGED <<variant, callback, r_user, r_query, r_tag_names, r_selected_tags,
                   r_failed, r_oracle_calls, r_selected_ids>>
    /\ UNCHANGED <<storeVars, selectVars, mergeVars, progressVars, toolVars>>

\* a failed fetch that ends the invocation with an empty result
AbortOnFailedFetch ==
    /\ rpc' = "done"
    /\ r_outcome' = "returned"
    /\ r_final' = <<>>
    /\ UNCHANGED <<r_next, r_progress>>

\* except Exception as e: print(...); continue
ContinueAfterFailedFetch == ExpandAdvance(r_candidates)

\* step 3, one selected tag whose fetch raises: the failure is logged and the
\* loop goes on
ResolverExpandTagFails ==
    /\ rpc = "expand"
    /\ ContinueAfterFailedFetch
    /\ r_failed' = r_failed \cup {r_next}
    /\ r_stages' = EnterExpand(r_stages)
    /\ UNCHANGED <<variant, callback, r_user, r_query, r_tag_names, r_selected_tags,
                   r_candidates, r_cache, r_oracle_calls, r_selected_ids>>
    /\ UNCHANGED <<storeVars, selectVars, mergeVars, progressVars, toolVars>>

\* step 4: _select_matching_resources
ResolverSelectResources ==
    /\ rpc = "select_resources"
    /\ \E oracle \in OracleAnswers(Range(CandidateIds(r_candidates)), UnknownId) :
        LET call == select_matching_resources(r_query, r_candidates, oracle)
            selected_ids == call.value
        IN /\ r_oracle_calls' = r_oracle_calls + OracleCalls(call)
           /\ IF IsEmptyList(selected_ids)
              THEN /\ Return(Emit(r_progress, "no_matching_resources"), <<>>)
                   /\ UNCHANGED r_selected_ids
              ELSE /\ rpc' = "resolve"
                   /\ r_selected_ids' = selected_ids
                   /\ r_progress' = Emit(r_progress, "selecting")
                   /\ UNCHANGED <<r_final, r_outcome>>
    /\ r_stages' = Append(r_stages, "SELECT_RESOURCES")
    /\ UNCHANGED <<variant, callback, r_user, r_query, r_tag_names, r_selected_tags, r_next,
                   r_candidates, r_cache, r_failed>>
    /\ UNCHANGED <<storeVars, selectVars, mergeVars, progressVars, toolVars>>

\* for resource_id in selected_resource_ids: the cached resource, or the one
\* get_resource_by_id finds
RECURSIVE ResolveAll(_, _, _, _)
ResolveAll(db, user_id, cache, selected_ids) ==
    IF selected_ids = <<>> THEN <<>>
    ELSE LET resource_id == Head(selected_ids)
             rest == ResolveAll(db, user_id, cache, Tail(selected_ids))
         IN IF resource_id \in cache
            THEN <<resource_id>> \o rest
            ELSE IF get_resource_by_id(db, resource_id, user_id) # 0
                 THEN <<resource_id>> \o rest
                 ELSE rest

\* step 5, the resource event of the tool, the last notification, the return
ResolverResolve ==
    /\ rpc = "resolve"
    /\ LET final_results == ResolveAll(CurrentDb, r_user, r_cache, r_selected_ids)
           shown == IF variant = "tool" /\ final_results # <<>>
                    THEN Emit(r_progress, "resource")
                    ELSE r_progress
       IN Return(IF variant = "tool" \/ final_results # <<>>
                 THEN Emit(shown, "completed")
                 ELSE shown,
                 final_results)
    /\ r_stages' = Append(r_stages, "RESOLVE")
    /\ UNCHANGED <<variant, callback, r_user, r_query, r_tag_names, r_selected_tags, r_next,
                   r_candidates, r_cache, r_failed, r_oracle_calls, r_selected_ids>>
    /\ UNCHANGED <<storeVars, selectVars, mergeVars, progressVars, toolVars>>

\* the label the log prints when the step at position pc begins
StageOf(pc) ==
    CASE pc = "fetch_tags" -> "FETCH_TAGS"
      [] pc = "select_tags" -> "SELECT_TAGS"
      [] pc = "expand" -> "EXPAND_TAGS"
      [] pc = "select_resources" -> "SELECT_RESOURCES"
      [] pc = "resolve" -> "RESOLVE"

\* the log of steps once the step at position pc has begun
StageEntered(stages, pc) ==
    IF stages # <<>> /\ stages[Len(stages)] = StageOf(pc)
    THEN stages
    ELSE Append(stages, StageOf(pc))

\* a step raises an exception nothing inside the step catches (a query of the
\* store, a notification): control passes to the except clause
ResolverRaise ==
    /\ rpc \in {"fetch_tags", "select_tags", "expand", "select_resources", "resolve"}
    /\ Handler
    /\ \/ UNCHANGED <<r_stages, r_oracle_calls>>
       \/ /\ r_stages' = StageEntered(r_stages, rpc)
          /\ r_oracle_calls' = r_oracle_calls
                                + (IF rpc \in {"select_tags", "select_resources"} THEN 1 ELSE 0)
    /\ UNCHANGED <<variant, callback, r_user, r_query>>
    /\ UNCHANGED <<storeVars, selectVars, mergeVars, progressVars, toolVars>>

\* the caller has the result; the next invocation starts afresh
ResolverReset ==
    /\ rpc = "done"
    /\ rpc' = "idle"
    /\ variant' = "workflow"
    /\ callback' = "none"
    /\ r_user' = 1
    /\ r_query' = <<>>
    /\ r_tag_names' = <<>>
    /\ r_selected_tags' = <<>>
    /\ r_next' = 1
    /\ r_candidates' = <<>>
    /\ r_cache' = {}
    /\ r_failed' = {}
    /\ r_stages' = <<>>
    /\ r_oracle_calls' = 0
    /\ r_selected_ids' = <<>>
    /\ r_final' = <<>>
    /\ r_outcome' = "none"
    /\ r_progress' = <<>>
    /\ UNCHANGED <<storeVars, selectVars, mergeVars, progressVars, toolVars>>

ResolverNext ==
    \/ ResolverStart
    \/ ResolverFetchTags
    \/ ResolverSelectTags
    \/ ResolverExpandTag
    \/ ResolverExpandTagFails
    \/ ResolverSelectResources
    \/ ResolverResolve
    \/ ResolverRaise
    \/ ResolverReset

(***************************************************************************)
(* The progress channel: ai_chat_agent, get_tools, the progress callback   *)
(* and process_progress_stream (routers/ai_router.py,                      *)
(* utils/langchain_tools.py)                                               *)
(***************************************************************************)
\* two agent-chat requests served by the same process
Requests == {"A", "B"}

\* max_consecutive_timeouts = 50
max_consecutive_timeouts == 50

\* the k-th progress event the tools of request r emit
ProgressEvent(r, k) == [req |-> r, n |-> k]

\* tools that are one object for all requests: attaching the callback of
\* request r attaches it for every request
get_tools_shared(callbacks, r) == [q \in Requests |-> r]

\* get_tools(progress_callback, ...): new tool objects, the callback stored on
\* them; the callback is the closure over the progress_queue of request r
get_tools(callbacks, r) == [callbacks EXCEPT ![r] = r]

\* ai_chat_agent: progress_queue = asyncio.Queue(), get_tools(...),
\* process_progress_stream(progress_queue)
AgentChatStart ==
    /\ \E r \in Requests :
        /\ ppc[r] = "none"
        /\ tool_callback' = get_tools(tool_callback, r)
        /\ progress_queue' = [progress_queue EXCEPT ![r] = <<>>]
        /\ ppc' = [ppc EXCEPT ![r] = "polling"]
        /\ consecutive_timeouts' = [consecutive_timeouts EXCEPT ![r] = 0]
    /\ UNCHANGED <<p_emitted, delivered>>
    /\ UNCHANGED <<storeVars, selectVars, resolverVars, mergeVars, toolVars>>

\* emit_progress of a tool of request r: await self.progress_callback(data),
\* which is await progress_queue.put(data) on the queue of the closure
EmitProgress ==
    /\ \E r \in Requests :
        /\ tool_callback[r] # "none"
        /\ p_emitted[r] < MaxProgress
        /\ p_emitted' = [p_emitted EXCEPT ![r] = @ + 1]
        /\ progress_queue' = [progress_queue EXCEPT ![tool_callback[r]] =
                                 Append(@, ProgressEvent(r, p_emitted[r] + 1))]
    /\ UNCHANGED <<tool_callback, ppc, consecutive_timeouts, delivered>>
    /\ UNCHANGED <<storeVars, selectVars, resolverVars, mergeVars, toolVars>>

\* wait_for(progress_queue.get(), timeout=0.1) returns an event, which is
\* yielded
PollGet ==
    /\ \E r \in Requests :
        /\ ppc[r] = "polling"
        /\ progress_queue[r] # <<>>
        /\ progress_queue' = [progress_queue EXCEPT ![r] = Tail(@)]
        /\ delivered' = [delivered EXCEPT ![r] = Append(@, Head(progress_queue[r]))]
        /\ ppc' = [ppc EXCEPT ![r] = "yielding"]
    /\ UNCHANGED <<tool_callback, p_emitted, consecutive_timeouts>>
    /\ UNCHANGED <<storeVars, selectVars, resolverVars, mergeVars, toolVars>>

\* a reset that leaves the counter as it is
KeepCount(count) == count

\* consecutive_timeouts = 0
ResetCount(count) == 0

\* the consumer asks for the next event: the generator goes on after its yield
PollResume ==
    /\ \E r \in Requests :
        /\ ppc[r] = "yielding"
        /\ consecutive_timeouts' = [consecutive_timeouts EXCEPT ![r] = ResetCount(@)]
        /\ ppc' = [ppc EXCEPT ![r] = "polling"]
    /\ UNCHANGED <<tool_callback, p_emitted, progress_queue, delivered>>
    /\ UNCHANGED <<storeVars, selectVars, resolverVars, mergeVars, toolVars>>

\* except asyncio.TimeoutError: the counter goes up; at
\* max_consecutive_timeouts the loop is left and the generator ends
PollTimeout ==
    /\ \E r \in Requests :
        /\ ppc[r] = "polling"
        /\ progress_queue[r] = <<>>
        /\ consecutive_timeouts' = [consecutive_timeouts EXCEPT ![r] = @ + 1]
        /\ ppc' = [ppc EXCEPT ![r] =
                      IF consecutive_timeouts[r] + 1 >= max_consecutive_timeouts
                      THEN "ended" ELSE "polling"]
    /\ UNCHANGED <<tool_callback, p_emitted, progress_queue, delivered>>
    /\ UNCHANGED <<storeVars, selectVars, resolverVars, mergeVars, toolVars>>

\* the forwarding task that iterates the stream is cancelled (the early
\* termination of merge_streams, a client that went away): CancelledError is
\* no Exception, the generator is left where it stands
PollCancelled ==
    /\ \E r \in Requests :
        /\ ppc[r] \in {"polling", "yielding"}
        /\ ppc' = [ppc EXCEPT ![r] = "cancelled"]
    /\ UNCHANGED <<tool_callback, p_emitted, progress_queue, consecutive_timeouts, delivered>>
    /\ UNCHANGED <<storeVars, selectVars, resolverVars, mergeVars, toolVars>>

\* no request has arrived
ProgressInit ==
    /\ tool_callback = [r \in Requests |-> "none"]
    /\ p_emitted = [r \in Requests |-> 0]
    /\ progress_queue = [r \in Requests |-> <<>>]
    /\ ppc = [r \in Requests |-> "none"]
    /\ consecutive_timeouts = [r \in Requests |-> 0]
    /\ delivered = [r \in Requests |-> <<>>]

ProgressNext ==
    \/ AgentChatStart
    \/ EmitProgress
    \/ PollGet
    \/ PollResume
    \/ PollTimeout
    \/ PollCancelled

(***************************************************************************)
(* SearchResourcesTool._arun: the resource event and the JSON result       *)
(***************************************************************************)
\* the limit argument (default 10) as the agent may pass it
Limits == {-1, 0, 1, 2, 3, 10}

\* final_results: up to three distinct resources
FinalResults == {f \in SeqsUpTo(1..3, 3) : NoDup(f)}

\* s[:limit] as Python slices: the first limit entries, or, for a negative
\* limit, all but the last -limit entries
SliceTo(s, limit) ==
    IF limit >= 0 THEN Take(s, limit)
    ELSE Take(s, IF Len(s) + limit > 0 THEN Len(s) + limit ELSE 0)

\* the resource event: sent for a non-empty result, with the cards of
\* final_results[:limit] and their number
ResourceEventOf(final_results, limit) ==
    IF final_results # <<>>
    THEN [sent |-> TRUE, resources |-> SliceTo(final_results, limit),
          count |-> Len(SliceTo(final_results, limit))]
    ELSE [sent |-> FALSE, resources |-> <<>>, count |-> 0]

\* the JSON returned: count 0 and no results for an empty result, otherwise
\* count = total = len(final_results) and results = final_results[:limit]
ToolResultJson(final_results, limit) ==
    IF final_results = <<>>
    THEN [count |-> 0, has_results |-> FALSE, results |-> <<>>]
    ELSE [count |-> Len(final_results), has_results |-> TRUE,
          results |-> SliceTo(final_results, limit)]

\* no search has been resolved
ToolIdle ==
    /\ t_pc = "idle"
    /\ t_limit = 10
    /\ t_final = <<>>
    /\ t_event = ResourceEventOf(<<>>, 10)
    /\ t_json = ToolResultJson(<<>>, 10)

\* the resource event is sent, the JSON is returned
ToolReturn ==
    /\ t_pc = "resolved"
    /\ t_pc' = "returned"
    /\ t_event' = ResourceEventOf(t_final, t_limit)
    /\ t_json' = ToolResultJson(t_final, t_limit)
    /\ UNCHANGED <<t_limit, t_final>>
    /\ UNCHANGED <<storeVars, selectVars, resolverVars, mergeVars, progressVars>>

(***************************************************************************)
(* ai_chat_agent.generate_response: set-up                                 *)
(***************************************************************************)
\* get_tools, the prompt, the agent and the two generators are built and
\* merge_streams is entered: it creates one queue_events task per stream.
GenSetupOk ==
    /\ gpc = "setup"
    /\ gpc' = "merging"
    /\ tasks' = [i \in StreamIdx |-> IF i \in Streams THEN "iter" ELSE "none"]
    /\ active_streams' = n_streams
    /\ agent_stream_ended' = FALSE
    /\ mpc' = "loop"
    /\ UNCHANGED <<sse, n_streams, kind, emitted, queue, early, raised, out>>
    /\ UNCHANGED <<storeVars, selectVars, resolverVars, progressVars, toolVars>>

\* the frame generate_response's handler writes for an exception
GenExceptFrames == <<GeneratorError>>

\* an exception raised while the tools or the agent are set up is caught by
\* generate_response's except clause
GenSetupRaise ==
    /\ gpc = "setup"
    /\ gpc' = "finished"
    /\ sse' = sse \o GenExceptFrames
    /\ UNCHANGED <<n_streams, kind, emitted, tasks, queue, active_streams,
                   agent_stream_ended, mpc, early, raised, out>>
    /\ UNCHANGED <<storeVars, selectVars, resolverVars, progressVars, toolVars>>

(***************************************************************************)
(* merge_streams.queue_events: the forwarding task of stream i             *)
(***************************************************************************)
\* a LIFO queue instead of asyncio.Queue's FIFO
PutFront(q, item) == <<item>> \o q

\* queue.put(item) on the unbounded asyncio.Queue: FIFO, never blocks
Put(q, item) == Append(q, item)

\* async for event in stream: await queue.put((stream_index, event))
QueueEventsPut(i) ==
    /\ i \in Streams
    /\ tasks[i] = "iter"
    /\ TotalEmitted < MaxEvents
    /\ emitted' = [emitted EXCEPT ![i] = @ + 1]
    /\ queue' = Put(queue, [idx |-> i, event |-> Event(i, emitted[i] + 1)])
    /\ UNCHANGED <<gpc, sse, n_streams, kind, tasks, active_streams,
                   agent_stream_ended, mpc, early, raised, out>>
    /\ UNCHANGED <<storeVars, selectVars, resolverVars, progressVars, toolVars>>

\* the sentinel put before the error event
ErrorPutsSentinelFirst(i) == <<[idx |-> i, event |-> None], [idx |-> i, event |-> ErrorEvent(i)]>>

\* what queue_events puts when the stream raises: the error event, then
\* (finally) the sentinel
ErrorPuts(i) == <<[idx |-> i, event |-> ErrorEvent(i)], [idx |-> i, event |-> None]>>

\* the stream is exhausted: finally puts the sentinel, the task is done
QueueEventsEnd(i) ==
    /\ i \in Streams
    /\ tasks[i] = "iter"
    /\ kind[i] = "finite"
    /\ queue' = Put(queue, [idx |-> i, event |-> None])
    /\ tasks' = [tasks EXCEPT ![i] = "done"]
    /\ UNCHANGED <<gpc, sse, n_streams, kind, emitted, active_streams,
                   agent_stream_ended, mpc, early, raised, out>>
    /\ UNCHANGED <<storeVars, selectVars, resolverVars, progressVars, toolVars>>

\* the stream raises an Exception while it is iterated
QueueEventsError(i) ==
    /\ i \in Streams
    /\ tasks[i] = "iter"
    /\ kind[i] = "finite"
    /\ queue' = queue \o ErrorPuts(i)
    /\ tasks' = [tasks EXCEPT ![i] = "done"]
    /\ raised' = raised \cup {i}
    /\ UNCHANGED <<gpc, sse, n_streams, kind, emitted, active_streams,
                   agent_stream_ended, mpc, early, out>>
    /\ UNCHANGED <<storeVars, selectVars, resolverVars, progressVars, toolVars>>

\* task.cancel() was called: CancelledError is thrown into the task where it
\* is suspended; it is no Exception, so only the finally clause runs
QueueEventsCancelled(i) ==
    /\ i \in Streams
    /\ tasks[i] = "cancelling"
    /\ queue' = Put(queue, [idx |-> i, event |-> None])
    /\ tasks' = [tasks EXCEPT ![i] = "cancelled"]
    /\ UNCHANGED <<gpc, sse, n_streams, kind, emitted, active_streams,
                   agent_stream_ended, mpc, early, raised, out>>
    /\ UNCHANGED <<storeVars, selectVars, resolverVars, progressVars, toolVars>>

(***************************************************************************)
(* merge_streams: the merge loop                                           *)
(***************************************************************************)
\* the rule written with active_streams == 0: it never fires before the loop ends
EarlyTerminationAtZero(ended, active) == ended /\ active = 0

\* a rule that does not ask which stream has ended
EarlyTerminationWhenOneLeft(ended, active) == active = 1

\* if agent_stream_ended and active_streams == 1
EarlyTermination(ended, active) == ended /\ active = 1

\* a yield that only forwards the primary's events
YieldedPrimaryOnly(item) == IF item.idx = 0 THEN <<item.event>> ELSE <<>>

\* else: yield event
Yielded(item) == <<item.event>>

\* a break that leaves the running tasks alone
CancelNothing == tasks

\* for task in tasks: if not task.done(): task.cancel()
CancelTasks == [i \in StreamIdx |-> IF tasks[i] = "iter" THEN "cancelling" ELSE tasks[i]]

\* a loop that takes the sentinel of any stream for the agent's
AnyStreamEnded(ended, stream_index) == TRUE

\* if stream_index == 0: agent_stream_ended = True
AgentStreamEnded(ended, stream_index) == ended \/ stream_index = 0

\* stream_index, event = await queue.get(), event is None
MergeTakeSentinel ==
    /\ mpc = "loop"
    /\ queue # <<>>
    /\ Head(queue).event = None
    /\ LET idx == Head(queue).idx
           ended == AgentStreamEnded(agent_stream_ended, idx)
           active == active_streams - 1
       IN /\ queue' = Tail(queue)
          /\ agent_stream_ended' = ended
          /\ active_streams' = active
          /\ IF EarlyTermination(ended, active)
             THEN /\ tasks' = CancelTasks
                  /\ mpc' = "gather"
                  /\ early' = TRUE
             ELSE /\ tasks' = tasks
                  /\ mpc' = IF active > 0 THEN "loop" ELSE "gather"
                  /\ early' = early
    /\ UNCHANGED <<gpc, sse, n_streams, kind, emitted, raised, out>>
    /\ UNCHANGED <<storeVars, selectVars, resolverVars, progressVars, toolVars>>

\* stream_index, event = await queue.get(); yield event: generate_response
\* writes the frame  data: json.dumps(event_data)
MergeTakeEvent ==
    /\ mpc = "loop"
    /\ queue # <<>>
    /\ Head(queue).event # None
    /\ queue' = Tail(queue)
    /\ out' = out \o Yielded(Head(queue))
    /\ sse' = sse \o Yielded(Head(queue))
    /\ UNCHANGED <<gpc, n_streams, kind, emitted, tasks, active_streams,
                   agent_stream_ended, mpc, early, raised>>
    /\ UNCHANGED <<storeVars, selectVars, resolverVars, progressVars, toolVars>>

\* the same, but json.dumps raises on the event (a payload that is not JSON
\* serialisable): generate_response's except clause writes an error frame and
\* the generator ends, merge_streams is never resumed
MergeTakeEventRaise ==
    /\ mpc = "loop"
    /\ queue # <<>>
    /\ Head(queue).event # None
    /\ queue' = Tail(queue)
    /\ out' = out \o Yielded(Head(queue))
    /\ sse' = sse \o GenExceptFrames
    /\ gpc' = "finished"
    /\ mpc' = "abandoned"
    /\ UNCHANGED <<n_streams, kind, emitted, tasks, active_streams,
                   agent_stream_ended, early, raised>>
    /\ UNCHANGED <<storeVars, selectVars, resolverVars, progressVars, toolVars>>

\* await asyncio.gather(*tasks, return_exceptions=True) returns once every task
\* is done; merge_streams returns and generate_response writes the done frame
MergeGather ==
    /\ mpc = "gather"
    /\ \A i \in Streams : tasks[i] \in {"done", "cancelled"}
    /\ mpc' = "returned"
    /\ sse' = Append(sse, DoneFrame)
    /\ gpc' = "finished"
    /\ UNCHANGED <<n_streams, kind, emitted, tasks, queue, active_streams,
                   agent_stream_ended, early, raised, out>>
    /\ UNCHANGED <<storeVars, selectVars, resolverVars, progressVars, toolVars>>

MergeStart ==
    /\ gpc = "setup"
    /\ sse = <<>>
    /\ emitted = [i \in StreamIdx |-> 0]
    /\ tasks = [i \in StreamIdx |-> "none"]
    /\ queue = <<>>
    /\ active_streams = 0
    /\ agent_stream_ended = FALSE
    /\ mpc = "idle"
    /\ early = FALSE
    /\ raised = {}
    /\ out = <<>>

\* every source completes or raises at a time of its choosing
MergeInit ==
    /\ MergeStart
    /\ n_streams \in StreamCounts
    /\ kind = [i \in StreamIdx |-> "finite"]

MergeNext ==
    \/ GenSetupOk
    \/ \E i \in StreamIdx : QueueEventsPut(i)
    \/ \E i \in StreamIdx : QueueEventsEnd(i)
    \/ \E i \in StreamIdx : QueueEventsError(i)
    \/ \E i \in StreamIdx : QueueEventsCancelled(i)
    \/ MergeTakeSentinel
    \/ MergeTakeEvent
    \/ MergeGather

\* merge_streams over 1, 2 or 3 sources, with a consumer that takes every event
MergeSpecInit ==
    /\ MergeInit
    /\ StoreInit /\ SelectIdle /\ ResolverIdle /\ ProgressInit /\ ToolIdle

SpecMerge == MergeSpecInit /\ [][MergeNext]_vars

\* merge_streams(primary, secondary): the primary emits finitely many events
\* and completes (or raises), the secondary never completes
LiveInit ==
    /\ MergeStart
    /\ n_streams = 2
    /\ kind = [i \in StreamIdx |-> IF i = 1 THEN "endless" ELSE "finite"]

\* asyncio runs every task that is ready: the merge loop, each forwarding
\* task, and the delivery of a cancellation
MergeFairness ==
    /\ WF_vars(GenSetupOk)
    /\ WF_vars(MergeTakeSentinel \/ MergeTakeEvent)
    /\ WF_vars(MergeGather)
    /\ \A i \in StreamIdx : WF_vars(QueueEventsEnd(i) \/ QueueEventsError(i))
    /\ \A i \in StreamIdx : WF_vars(QueueEventsCancelled(i))

LiveSpecInit ==
    /\ LiveInit
    /\ StoreInit /\ SelectIdle /\ ResolverIdle /\ ProgressInit /\ ToolIdle

SpecMergeLive == LiveSpecInit /\ [][MergeNext]_vars /\ MergeFairness

\* one agent-chat request: generate_response over merge_streams(agent_stream,
\* progress_stream), where set-up and json.dumps may raise
ChatInit == MergeInit /\ n_streams = 2

ChatNext ==
    \/ MergeNext
    \/ GenSetupRaise
    \/ MergeTakeEventRaise

ChatSpecInit ==
    /\ ChatInit
    /\ StoreInit /\ SelectIdle /\ ResolverIdle /\ ProgressInit /\ ToolIdle

SpecChat == ChatSpecInit /\ [][ChatNext]_vars

(***************************************************************************)
(* One agent-chat request with its progress channel: the agent stream is   *)
(* source 0 of merge_streams, process_progress_stream(progress_queue) is   *)
(* source 1                                                                *)
(***************************************************************************)
\* a tool of the running agent awaits emit_progress / progress_callback: the
\* event is put on the progress queue of the request
ToolEmitsProgress ==
    /\ gpc = "merging"
    /\ tasks[0] = "iter"
    /\ p_emitted["A"] < MaxProgress
    /\ p_emitted' = [p_emitted EXCEPT !["A"] = @ + 1]
    /\ progress_queue' = [progress_queue EXCEPT ![tool_callback["A"]] =
                             Append(@, ProgressEvent("A", p_emitted["A"] + 1))]
    /\ UNCHANGED <<tool_callback, ppc, consecutive_timeouts, delivered>>
    /\ UNCHANGED <<storeVars, selectVars, resolverVars, mergeVars, toolVars>>

\* a poll of process_progress_stream returns an event; it is yielded to
\* queue_events, which puts it on the queue of merge_streams, and the counter
\* is set to 0
ProgressForward ==
    /\ tasks[1] = "iter"
    /\ ppc["A"] = "polling"
    /\ progress_queue["A"] # <<>>
    /\ progress_queue' = [progress_queue EXCEPT !["A"] = Tail(@)]
    /\ delivered' = [delivered EXCEPT !["A"] = Append(@, Head(progress_queue["A"]))]
    /\ consecutive_timeouts' = [consecutive_timeouts EXCEPT !["A"] = ResetCount(@)]
    /\ emitted' = [emitted EXCEPT ![1] = @ + 1]
    /\ queue' = Put(queue, [idx |-> 1, event |-> Event(1, Head(progress_queue["A"]).n)])
    /\ UNCHANGED <<tool_callback, p_emitted, ppc>>
    /\ UNCHANGED <<gpc, sse, n_streams, kind, tasks, active_streams,
                   agent_stream_ended, mpc, early, raised, out>>
    /\ UNCHANGED <<storeVars, selectVars, resolverVars, toolVars>>

\* a poll times out; at max_consecutive_timeouts the generator ends and
\* queue_events puts the sentinel of source 1
ProgressPollTimeout ==
    /\ tasks[1] = "iter"
    /\ ppc["A"] = "polling"
    /\ progress_queue["A"] = <<>>
    /\ consecutive_timeouts' = [consecutive_timeouts EXCEPT !["A"] = @ + 1]
    /\ IF consecutive_timeouts["A"] + 1 >= max_consecutive_timeouts
       THEN /\ ppc' = [ppc EXCEPT !["A"] = "ended"]
            /\ tasks' = [tasks EXCEPT ![1] = "done"]
            /\ queue' = Put(queue, [idx |-> 1, event |-> None])
       ELSE UNCHANGED <<ppc, tasks, queue>>
    /\ UNCHANGED <<tool_callback, p_emitted, progress_queue, delivered>>
    /\ UNCHANGED <<gpc, sse, n_streams, kind, emitted, active_streams,
                   agent_stream_ended, mpc, early, raised, out>>
    /\ UNCHANGED <<storeVars, selectVars, resolverVars, toolVars>>

\* ai_chat_agent has made the queue, the callback and the tools of request A
ChannelInit ==
    /\ MergeStart
    /\ n_streams = 2
    /\ kind = [i \in StreamIdx |-> "finite"]
    /\ tool_callback = [r \in Requests |-> IF r = "A" THEN "A" ELSE "none"]
    /\ p_emitted = [r \in Requests |-> 0]
    /\ progress_queue = [r \in Requests |-> <<>>]
    /\ ppc = [r \in Requests |-> IF r = "A" THEN "polling" ELSE "none"]
    /\ consecutive_timeouts = [r \in Requests |-> 0]
    /\ delivered = [r \in Requests |-> <<>>]
    /\ StoreInit /\ SelectIdle /\ ResolverIdle /\ ToolIdle

ChannelNext ==
    \/ GenSetupOk
    \/ QueueEventsPut(0)
    \/ QueueEventsEnd(0)
    \/ QueueEventsCancelled(1)
    \/ ToolEmitsProgress
    \/ ProgressForward
    \/ ProgressPollTimeout
    \/ MergeTakeSentinel
    \/ MergeTakeEvent
    \/ MergeGather

SpecChannel == ChannelInit /\ [][ChannelNext]_vars

(***************************************************************************)
(* Properties of merge_streams and generate_response                       *)
(***************************************************************************)
\* the events (of sources, not error events) among a sequence of events
RECURSIVE SourceEvents(_)
SourceEvents(s) ==
    IF s = <<>> THEN <<>>
    ELSE IF Head(s).type = "event" THEN <<Head(s)>> \o SourceEvents(Tail(s))
         ELSE SourceEvents(Tail(s))

\* the events still on the shared queue, in queue order
QueuedEvents == [k \in 1..Len(queue) |-> queue[k].event]

\* the source events of source i that merge_streams has yielded
YieldedOf(i) == SourceEvents(SelectSeqBy(out, i))

\* the source events of source i still waiting on the shared queue
WaitingOf(i) == SourceEvents(SelectSeqBy(QueuedEvents, i))

\* number of entries of s equal to x
Count(s, x) == Cardinality({k \in 1..Len(s) : s[k] = x})

\* position of the first entry of s equal to x (0 when there is none)
IndexOf(s, x) ==
    IF x \in Range(s) THEN CHOOSE k \in 1..Len(s) : s[k] = x /\ \A j \in 1..(k - 1) : s[j] # x
    ELSE 0

\* C1: with a primary that emits finitely many events and completes and one
\* secondary that never completes, merge_streams always returns: the rule
\* fired, the secondary's forwarding task was cancelled, nothing hangs.
C1_MergeTerminates == <>(mpc = "returned" /\ early /\ tasks[1] = "cancelled")

\* C1 witness: the primary emitted and completed, the endless secondary
\* emitted too, and merge_streams has returned by the early-termination rule
C1_Witness ==
    /\ kind[1] = "endless"
    /\ emitted[0] = 3 /\ emitted[1] >= 1
    /\ mpc = "returned" /\ early /\ tasks[1] = "cancelled"

\* C2 (as claimed): when the response generator has finished, the outbound
\* stream holds exactly one done frame and it is the last frame.
C2_DoneOnceAndLast ==
    gpc = "finished" =>
        /\ Count(sse, DoneFrame) = 1
        /\ sse[Len(sse)] = DoneFrame

\* C3 (as claimed): once merge_streams has returned, every event produced by
\* every source is in the merged output exactly once, in the source's order.
C3_EveryEventYielded ==
    mpc = "returned" => \A i \in Streams : YieldedOf(i) = Produced(i)

\* C3 (amended): at every moment, for every source, the events yielded followed
\* by the events still on the shared queue are exactly the events produced, in
\* order and once each; when merge_streams returns without the
\* early-termination rule having fired nothing is left on the queue, so every
\* event produced was yielded.
C3_YieldedUpToStop ==
    /\ \A i \in Streams : YieldedOf(i) \o WaitingOf(i) = Produced(i)
    /\ (mpc = "returned" /\ ~early) => \A i \in Streams : YieldedOf(i) = Produced(i)

\* C3 witness: merge_streams returned by the early-termination rule having
\* yielded events of both sources, with an event of the secondary left behind
C3_Witness ==
    /\ mpc = "returned" /\ early
    /\ YieldedOf(0) # <<>> /\ YieldedOf(1) # <<>>
    /\ WaitingOf(1) # <<>>

\* C7: in the merged output the events of one source are in the order the
\* source produced them and none appears twice.
C7_PerSourceOrder ==
    \A a, b \in 1..Len(out) :
        (a < b /\ out[a].src = out[b].src /\ out[a].type = "event" /\ out[b].type = "event")
            => out[a].seq < out[b].seq

\* C7 witness: two sources interleaved in the output, the second event of the
\* primary after an event of the secondary that came after the primary's first
C7_Witness ==
    /\ Len(out) >= 4
    /\ out[1] = Event(0, 1) /\ out[2] = Event(1, 1)
    /\ out[3] = Event(0, 2) /\ out[4] = Event(1, 2)

\* C10 (as claimed): once merge_streams has returned, the error event of every
\* source that raised is in the merged output, after that source's events.
C10_ErrorEventShown ==
    mpc = "returned" =>
        \A i \in raised :
            /\ ErrorEvent(i) \in Range(out)
            /\ \A k \in 1..Len(out) : out[k].src = i => k <= IndexOf(out, ErrorEvent(i))

\* C10 (amended): a source that raised has its forwarding task done (nothing
\* propagates); its error event is either on the shared queue directly
\* followed by its sentinel, or in the merged output once, after all the
\* events the source produced; and it is in the output whenever the source is
\* the primary or merge_streams returned without early termination.
C10_ErrorEventThenSentinel ==
    \A i \in raised :
        /\ tasks[i] = "done"
        /\ Count(out \o QueuedEvents, ErrorEvent(i)) = 1
        /\ ErrorEvent(i) \in Range(QueuedEvents) =>
              LET k == IndexOf(QueuedEvents, ErrorEvent(i))
              IN /\ k < Len(queue) /\ queue[k + 1] = [idx |-> i, event |-> None]
                 /\ \A j \in 1..Len(queue) : (queue[j].idx = i /\ queue[j].event.type = "event") => j < k
        /\ ErrorEvent(i) \in Range(out) =>
              /\ YieldedOf(i) = Produced(i)
              /\ \A k \in 1..Len(out) : out[k].src = i => k <= IndexOf(out, ErrorEvent(i))
        /\ (mpc = "returned" /\ (i = 0 \/ ~early)) => ErrorEvent(i) \in Range(out)

\* C10 witness: a secondary raised after producing events and its error event
\* was yielded after them; merge_streams went on to return
C10_Witness ==
    /\ 1 \in raised /\ emitted[1] >= 1
    /\ ErrorEvent(1) \in Range(out)
    /\ mpc = "returned"

\* source i raised before the event at position k of the shared queue was put:
\* its error event was put earlier (it is ahead on the queue or already taken)
FailedBefore(i, k) ==
    \/ ErrorEvent(i) \in Range(out)
    \/ \E m \in 1..(k - 1) : queue[m].event = ErrorEvent(i)

\* C11 (as claimed): after a source has failed, the primary or a secondary,
\* the events the other sources produce afterwards are delivered: when
\* merge_streams has returned no such event is left undelivered on the queue.
C11_ServedAfterAnyFailure ==
    mpc = "returned" =>
        \A i \in raised : \A k \in 1..Len(queue) :
            (queue[k].idx # i /\ queue[k].event.type = "event") => ~FailedBefore(i, k)

\* C11 (amended): the failure of a secondary does not stop the loop: the loop
\* stops only by the early-termination rule or with every sentinel taken, the
\* primary's forwarding task is never cancelled, and once the loop has stopped
\* every event the primary produced, before or after the failure, has been
\* yielded; without early termination the same holds for every other source.
C11_ServedAfterSecondaryFailure ==
    /\ tasks[0] \in {"none", "iter", "done"}
    /\ mpc \in {"gather", "returned"} =>
          /\ early \/ active_streams = 0
          /\ YieldedOf(0) = Produced(0)
    /\ (mpc = "returned" /\ ~early) =>
          \A i \in raised : \A j \in Streams \ {i} : YieldedOf(j) = Produced(j)

\* C11 witness: the secondary failed, the primary produced an event after the
\* failure (it is behind the error event in the output) and merge_streams
\* returned having yielded it
C11_Witness ==
    /\ 1 \in raised /\ mpc = "returned"
    /\ ErrorEvent(1) \in Range(out)
    /\ \E k \in 1..Len(out) :
          out[k].src = 0 /\ out[k].type = "event" /\ k > IndexOf(out, ErrorEvent(1))

\* what holds in every state once the early-termination rule has fired
CancelledQuietly ==
    early =>
        /\ \A i \in Streams : tasks[i] \in {"cancelling", "cancelled", "done"}
        /\ mpc \in {"gather", "returned"}
        /\ mpc = "returned" => \A i \in Streams : tasks[i] \in {"cancelled", "done"}
        /\ \A i \in Streams : tasks[i] \in {"cancelling", "cancelled"} =>
              /\ i \notin raised
              /\ ErrorEvent(i) \notin Range(out \o QueuedEvents)
        /\ gpc = "finished" => (sse = Append(out, DoneFrame) /\ GeneratorError \notin Range(out))

\* C12: when the early-termination rule fires, every forwarding task that is
\* still running is cancelled and merge_streams returns only when all tasks
\* are over; a cancelled task puts no error event, the consumer gets the
\* events yielded so far and then the done frame, and nothing is yielded once
\* the rule has fired.
C12_CancelledAndAwaited ==
    /\ []CancelledQuietly
    /\ [][early => out' = out]_vars

\* C12 witness: three sources; the rule fired while the third was running and
\* had an event waiting: its task was cancelled and merge_streams returned
C12_Witness ==
    /\ n_streams = 3 /\ early /\ mpc = "returned"
    /\ tasks[2] = "cancelled" /\ WaitingOf(2) # <<>>
    /\ out # <<>>

(***************************************************************************)
(* Specifications of select and of the resolver over the store             *)
(***************************************************************************)
\* no agent-chat request is in progress
MergeIdle ==
    /\ MergeStart
    /\ n_streams = 1
    /\ kind = [i \in StreamIdx |-> "finite"]

SelectNext ==
    \/ SelectTags
    \/ SelectResources
    \/ SelectRepeat

\* one call of select, for every query, option list and oracle answer
SelectSpecInit ==
    /\ SelectInit
    /\ StoreInit /\ ResolverIdle /\ MergeIdle /\ ProgressInit /\ ToolIdle

SpecSelect == SelectSpecInit /\ [][SelectNext]_vars

SearchNext ==
    \/ create_resource
    \/ update_resource
    \/ delete_resource
    \/ create_tag
    \/ delete_tag
    \/ ResolverStart
    \/ ResolverFetchTags
    \/ ResolverSelectTags
    \/ ResolverExpandTag
    \/ ResolverExpandTagFails
    \/ ResolverSelectResources
    \/ ResolverResolve
    \/ ResolverRaise
    \/ ResolverReset

\* requests of the users against the store, and resolver invocations between them
SearchInit ==
    /\ StoreInit
    /\ ResolverIdle /\ SelectIdle /\ MergeIdle /\ ProgressInit /\ ToolIdle

SpecSearch == SearchInit /\ [][SearchNext]_vars

\* the requests against the store alone, tag inserts racing with each other
StoreRaceNext ==
    \/ create_resource
    \/ update_resource
    \/ delete_resource
    \/ create_tag
    \/ delete_tag
    \/ create_tag_concurrent

StoreSpecInit ==
    /\ StoreInit
    /\ ResolverIdle /\ SelectIdle /\ MergeIdle /\ ProgressInit /\ ToolIdle

SpecStore == StoreSpecInit /\ [][StoreRaceNext]_vars

\* the progress channels of two requests, nothing else running
ProgressSpecInit ==
    /\ ProgressInit /\ ToolIdle
    /\ StoreInit /\ ResolverIdle /\ SelectIdle /\ MergeIdle

SpecProgress == ProgressSpecInit /\ [][ProgressNext]_vars

\* the tool after step 5, for every limit and every result
\* step 5 is over with some final_results, a callback is attached
ToolInit ==
    /\ t_pc = "resolved"
    /\ t_limit \in Limits
    /\ t_final \in FinalResults
    /\ t_event = ResourceEventOf(<<>>, 10)
    /\ t_json = ToolResultJson(<<>>, 10)
    /\ StoreInit /\ SelectIdle /\ ResolverIdle /\ MergeIdle /\ ProgressInit

SpecTool == ToolInit /\ [][ToolReturn]_vars

(***************************************************************************)
(* Properties of the resolver and of select                                *)
(***************************************************************************)
\* the non-deleted resources of the store that a non-deleted association row
\* ties to a non-deleted tag of that name
TaggedResources(tag_name) ==
    {k \in 1..Len(resources) :
        /\ ~resources[k].is_deleted
        /\ \E rt \in resource_tags :
              /\ rt.resource_id = k /\ ~rt.is_deleted
              /\ ~tags[rt.tag_id].is_deleted /\ tags[rt.tag_id].name = tag_name}

\* C4: whatever requests the users have made against the store, every resource
\* an invocation for user u lists as a candidate, holds in its cache or
\* returns is a resource whose owner is u.
C4_OwnershipIsolation ==
    /\ \A k \in 1..Len(r_candidates) : resources[r_candidates[k].id].user_id = r_user
    /\ \A resource_id \in r_cache : resources[resource_id].user_id = r_user
    /\ \A k \in 1..Len(r_final) : resources[r_final[k]].user_id = r_user

\* C4 witness: an invocation has returned a resource found under a tag name
\* under which another user holds a resource too
C4_Witness ==
    /\ rpc = "done" /\ r_outcome = "returned" /\ r_final # <<>>
    /\ \E k \in 1..Len(r_selected_tags) :
          \E other \in TaggedResources(r_selected_tags[k]) :
              resources[other].user_id # r_user

\* C5: no resolver invocation raises to its caller.
C5_NeverRaises == r_outcome # "raised"

\* C6: from the expansion on, no resource id occurs twice among the
\* candidates, and the cache has exactly one entry per candidate: the ids of
\* the cache are the ids of the candidates and there are as many of them.
C6_Dedup ==
    /\ NoDup(CandidateIds(r_candidates))
    /\ r_cache = Range(CandidateIds(r_candidates))
    /\ Cardinality(r_cache) = Len(r_candidates)

\* C6 witness: the expansion went over two selected tags that share a resource
\* and the invocation has that resource as its one candidate
C6_Witness ==
    /\ rpc \in {"select_resources", "resolve", "done"}
    /\ Len(r_selected_tags) = 2 /\ r_selected_tags[1] # r_selected_tags[2]
    /\ \E resource_id \in r_cache :
          /\ resource_id \in TaggedResources(r_selected_tags[1])
          /\ resource_id \in TaggedResources(r_selected_tags[2])
    /\ Len(r_candidates) = 1

\* the keyword fallback for the inputs of the call
FallbackOfCall ==
    IF sel_mode = "tags"
    THEN TagFallback(sel_query, sel_options)
    ELSE ResourceFallback(sel_query, sel_options)

\* C8: when the oracle call raises or returns a value that is neither a
\* mapping nor an object with the selection field, select returns the keyword
\* fallback for (query, options).
C8_FallbackOnUnreadable ==
    (sel_pc = "done" /\ sel_options # <<>> /\ sel_oracle.kind \in {"raise", "other"})
        => sel_result.value = FallbackOfCall

\* the elements select was given to choose from
OfferedToCall ==
    IF sel_mode = "tags" THEN Range(sel_options) ELSE Range(CandidateIds(sel_options))

\* C9: the value select returns holds only elements of the options it was
\* given, on the oracle path and on the fallback path.
C9_OnlyOffered == sel_pc = "done" => Range(sel_result.value) \subseteq OfferedToCall

\* C9 witness: the oracle named an element that was not offered next to one
\* that was, and select returned the offered one
C9_Witness ==
    /\ sel_pc = "done" /\ sel_result.path = "oracle"
    /\ \E x \in Range(SelectedOf(sel_oracle)) : x \notin OfferedToCall
    /\ sel_result.value # <<>>

\* the positions of selected_tags the expansion loop has been through
Expanded == {k \in 1..Len(r_selected_tags) : k < r_next}

\* the resources the fetches that succeeded have returned
FetchedResources ==
    UNION {Range(get_resources_by_tag(CurrentDb, r_user, r_selected_tags[k], PageSize)) :
              k \in Expanded \ r_failed}

\* in every state of the expansion and after it, the candidates are the
\* resources returned by the fetches that succeeded
CandidatesAreFetched ==
    /\ r_failed \subseteq Expanded
    /\ Range(CandidateIds(r_candidates)) = FetchedResources

\* a step in which a fetch fails leaves the candidates alone and goes on to
\* the next selected tag, or, after the last one, to SELECT_RESOURCES (to the
\* "no candidates" return when there is no candidate)
FailedFetchSkipped ==
    r_failed' # r_failed /\ r_failed' # {} =>
        /\ r_candidates' = r_candidates
        /\ r_next' = r_next + 1
        /\ r_outcome' # "raised"
        /\ \/ rpc' = "expand" /\ r_next' <= Len(r_selected_tags)
           \/ rpc' = "select_resources" /\ r_candidates # <<>>
           \/ rpc' = "done" /\ r_candidates = <<>> /\ r_next' > Len(r_selected_tags)

\* C13: when the fetch for one selected tag raises, the resolver skips the
\* tag and goes on with the remaining ones; the candidates are exactly the
\* resources of the tags whose fetch succeeded, and the invocation does not
\* abort.
C13_FailedTagSkipped ==
    /\ []CandidatesAreFetched
    /\ [][FailedFetchSkipped]_vars

\* C13 witness: the fetch of the first selected tag failed, the second tag
\* was expanded, and the invocation returned a resource found under it
C13_Witness ==
    /\ rpc = "done" /\ r_outcome = "returned"
    /\ Len(r_selected_tags) = 2 /\ r_failed = {1}
    /\ r_candidates # <<>> /\ r_final # <<>>


\* the order of the five steps
StageOrder == <<"FETCH_TAGS", "SELECT_TAGS", "EXPAND_TAGS", "SELECT_RESOURCES", "RESOLVE">>

\* the steps run so far are the first steps of the order, each once
StagesInOrder == \E n \in 0..Len(StageOrder) : r_stages = SubSeq(StageOrder, 1, n)

\* a step is only pending when the step before it left something to work on
NextStageHasInput ==
    /\ rpc = "select_tags" => r_tag_names # <<>> /\ Len(r_stages) = 1
    /\ rpc = "expand" => r_selected_tags # <<>> /\ Len(r_stages) \in {2, 3}
    /\ rpc = "select_resources" => r_candidates # <<>> /\ Len(r_stages) = 3
    /\ rpc = "resolve" => r_selected_ids # <<>> /\ Len(r_stages) = 4

\* an invocation that is over before its fifth step has no result
EmptyStageEnds ==
    (rpc = "done" /\ Len(r_stages) < Len(StageOrder)) => r_final = <<>>

\* the oracle is called at most once in each select step that has begun
OraclePerStage ==
    r_oracle_calls <= Cardinality({k \in 1..Len(r_stages) :
                                      r_stages[k] \in {"SELECT_TAGS", "SELECT_RESOURCES"}})

\* a step of the model adds at most one step to the log, at its end; once the
\* invocation is over nothing is added, no oracle is called, no fetch is made
StagesSequential ==
    /\ \/ r_stages' = r_stages
       \/ /\ Len(r_stages) < Len(StageOrder)
          /\ r_stages' = Append(r_stages, StageOrder[Len(r_stages) + 1])
       \/ rpc = "done" /\ rpc' = "idle" /\ r_stages' = <<>>
    /\ rpc = "done" =>
          \/ rpc' = "idle"
          \/ UNCHANGED <<rpc, r_stages, r_oracle_calls, r_candidates, r_cache, r_final>>

\* C14: the five steps of an invocation run in the order FETCH_TAGS,
\* SELECT_TAGS, EXPAND_TAGS, SELECT_RESOURCES, RESOLVE, each at most once and
\* one after the other; a step with an empty output ends the invocation with
\* an empty result, and no oracle call or fetch follows it.
C14_StagesInOrder ==
    /\ [](StagesInOrder /\ NextStageHasInput /\ EmptyStageEnds /\ OraclePerStage)
    /\ [][StagesSequential]_vars

\* an invocation whose fourth step selected nothing: four steps in order, two
\* oracle calls, an empty result, no fifth step
C14_Witness ==
    /\ rpc = "done" /\ r_outcome = "returned"
    /\ r_stages = SubSeq(StageOrder, 1, 4)
    /\ r_oracle_calls = 2
    /\ r_final = <<>>


\* the user of the invocation has no tag that is not deleted
NoTags == ~\E k \in 1..Len(tags) : tags[k].user_id = r_user /\ ~tags[k].is_deleted

\* what an invocation for a user without tags shows in every state: no oracle
\* call, no result, none of the "no match" messages
NoTagsQuiet ==
    (rpc # "idle" /\ NoTags) =>
        /\ rpc \in {"fetch_tags", "done"}
        /\ r_oracle_calls = 0
        /\ r_final = <<>>
        /\ Range(r_progress) \cap {"no_matching_tags", "no_candidates",
                                   "no_matching_resources"} = {}

\* step 1 of such an invocation, when it does not end in the except clause
\* and a callback is attached: it returns, and the last message is "no tags"
NoTagsStep ==
    (rpc = "fetch_tags" /\ NoTags /\ rpc' = "done" /\ callback = "ok" /\ ~ResolverRaise) =>
        /\ r_outcome' = "returned"
        /\ r_final' = <<>>
        /\ r_progress' = <<"analyzing", "no_tags">>

\* C15: for a user without non-deleted tags the invocation returns an empty
\* result, its progress ends with the "no tags" message, which is none of the
\* "no match" messages, and the oracle is not called.
C15_NoTagsYet ==
    /\ []NoTagsQuiet
    /\ [][NoTagsStep]_vars

\* a user whose only tag is deleted asked, with a callback attached
C15_Witness ==
    /\ rpc = "done" /\ r_outcome = "returned" /\ callback = "ok"
    /\ NoTags
    /\ \E k \in 1..Len(tags) : tags[k].user_id = r_user /\ tags[k].is_deleted
    /\ r_progress = <<"analyzing", "no_tags">>
    /\ r_oracle_calls = 0
    /\ r_final = <<>>


(***************************************************************************)
(* Properties of the progress channel                                      *)
(***************************************************************************)
\* the counter stays within 0..50, and the stream has ended by itself exactly
\* when the counter stands at 50
CountAndEnd ==
    \A r \in Requests :
        /\ consecutive_timeouts[r] \in 0..max_consecutive_timeouts
        /\ ppc[r] = "ended" <=> consecutive_timeouts[r] = max_consecutive_timeouts

\* an event that was yielded puts the counter back to 0 when the stream goes
\* on; a poll that timed out adds one; the stream ends by itself only in a
\* poll that timed out
CountSteps ==
    \A r \in Requests :
        /\ (ppc[r] = "yielding" /\ ppc'[r] = "polling") => consecutive_timeouts'[r] = 0
        /\ consecutive_timeouts'[r] \in {consecutive_timeouts[r], 0,
                                        consecutive_timeouts[r] + 1}
        /\ (ppc[r] # "ended" /\ ppc'[r] = "ended") =>
              /\ ppc[r] = "polling" /\ progress_queue[r] = <<>>
              /\ consecutive_timeouts[r] = max_consecutive_timeouts - 1

\* C16: process_progress_stream ends by itself exactly when 50 polls in a row
\* have timed out: an event puts the counter back to 0, the counter never
\* exceeds 50, the stream does not end below 50 and has ended as soon as the
\* counter reaches 50.
C16_EndsAtFiftyTimeouts ==
    /\ []CountAndEnd
    /\ [][CountSteps]_vars

\* a stream that yielded an event, went on polling and ended at 50 timeouts
C16_Witness ==
    /\ ppc["A"] = "ended"
    /\ consecutive_timeouts["A"] = max_consecutive_timeouts
    /\ delivered["A"] # <<>>


\* C19: every progress or resource event waiting on the progress queue of a
\* request, and every event the progress stream of a request has taken and
\* yielded, was emitted by a tool of that same request.
C19_QueuePerRequest ==
    \A r \in Requests :
        /\ \A k \in 1..Len(progress_queue[r]) : progress_queue[r][k].req = r
        /\ \A k \in 1..Len(delivered[r]) : delivered[r][k].req = r

\* two requests run at the same time, the tools of both have emitted, and
\* each stream has yielded an event while the other was still polling
C19_Witness ==
    /\ \A r \in Requests : p_emitted[r] > 0 /\ delivered[r] # <<>>
    /\ ppc["A"] = "polling" /\ ppc["B"] = "yielding"
    /\ progress_queue["A"] # <<>>


\* the names of all tags in the store
AllTagNames == {tags[k].name : k \in 1..Len(tags)}

\* what the reads of the resolver return holds no soft-deleted row: the tags
\* of get_user_tags, the tag, the association and the resources of
\* get_resources_by_tag, the resource of get_resource_by_id (looked at
\* between invocations: the store an invocation reads is the one it started on)
ReadsSkipDeleted ==
    rpc = "idle" => \A u \in Users :
        /\ \A t \in Range(get_user_tags(CurrentDb, u)) : ~tags[t].is_deleted
        /\ \A name \in AllTagNames :
              LET t == get_tag_by_name(CurrentDb, u, name)
              IN /\ t # 0 => ~tags[t].is_deleted
                 /\ \A id \in Range(get_resources_by_tag(CurrentDb, u, name, PageSize)) :
                       /\ ~resources[id].is_deleted
                       /\ \E rt \in resource_tags :
                             rt.resource_id = id /\ rt.tag_id = t /\ ~rt.is_deleted
        /\ \A id \in 1..Len(resources) :
              get_resource_by_id(CurrentDb, id, u) # 0 => ~resources[id].is_deleted

\* an invocation holds no deleted resource and no name of a deleted tag
InvocationSkipsDeleted ==
    /\ \A k \in 1..Len(r_candidates) : ~resources[r_candidates[k].id].is_deleted
    /\ \A id \in r_cache \cup Range(r_final) : ~resources[id].is_deleted
    /\ \A name \in Range(r_tag_names) \cup Range(r_selected_tags) :
          /\ \E t \in 1..Len(tags) :
                tags[t].user_id = r_user /\ tags[t].name = name /\ ~tags[t].is_deleted
          /\ ~\E t \in 1..Len(tags) :
                tags[t].user_id = r_user /\ tags[t].name = name /\ tags[t].is_deleted

\* a row that is soft-deleted stays soft-deleted
DeletedStaysDeleted ==
    /\ \A k \in 1..Len(resources) : resources[k].is_deleted => resources'[k].is_deleted
    /\ \A k \in 1..Len(tags) : tags[k].is_deleted => tags'[k].is_deleted

\* C17: a resource or a tag that was deleted stays deleted, and an invocation
\* of the resolver lists, caches and returns no deleted resource and offers
\* and expands no deleted tag; the reads it uses return no soft-deleted tag,
\* association or resource.
C17_DeletedNeverResolved ==
    /\ [](ReadsSkipDeleted /\ InvocationSkipsDeleted)
    /\ [][DeletedStaysDeleted]_vars

\* an invocation that returned a resource of a tag under which a deleted
\* resource of the same user was filed
C17_Witness ==
    /\ rpc = "done" /\ r_outcome = "returned" /\ r_final # <<>>
    /\ \E k \in 1..Len(resources) :
          /\ resources[k].is_deleted /\ resources[k].user_id = r_user
          /\ \E rt \in resource_tags :
                rt.resource_id = k /\ tags[rt.tag_id].name \in Range(r_selected_tags)


(***************************************************************************)
(* Properties of the store                                                 *)
(***************************************************************************)
\* C18: whatever create_tag, delete_tag, create_resource and update_resource
\* requests have run, also with the inserts of concurrent requests racing, no
\* user has two non-deleted tags of the same name.
C18_LiveTagNamesUnique ==
    \A a, b \in 1..Len(tags) :
        (/\ tags[a].user_id = tags[b].user_id
         /\ tags[a].name = tags[b].name
         /\ ~tags[a].is_deleted /\ ~tags[b].is_deleted) => a = b

\* both users hold a live tag "a", one user also a deleted tag, and three
\* requests have changed the store
C18_Witness ==
    /\ ops = MaxOps
    /\ \E a, b \in 1..Len(tags) :
          /\ tags[a].name = tags[b].name /\ tags[a].user_id # tags[b].user_id
          /\ ~tags[a].is_deleted /\ ~tags[b].is_deleted
    /\ \E d \in 1..Len(tags) : tags[d].is_deleted


(***************************************************************************)
(* The keyword fallback of select                                          *)
(***************************************************************************)
\* the whitespace-separated tokens of the lowercased query
QueryTokens == Range(Split(Lower(sel_query)))

\* the text of the option at position k: the tag name, or the resource title
OptionText(k) == IF sel_mode = "tags" THEN sel_options[k] ELSE sel_options[k].title

\* what is returned for the option at position k: the tag name, or the id
OptionKey(k) == IF sel_mode = "tags" THEN sel_options[k] ELSE sel_options[k].id

\* the positions of the options that hold a token of the query
MatchingOptions ==
    {k \in 1..Len(sel_options) :
        \E token \in QueryTokens : Contains(Lower(OptionText(k)), token)}

\* the j-th smallest position in S
NthOf(S, j) == CHOOSE k \in S : Cardinality({m \in S : m < k}) = j - 1

\* the matching options in the order of the options; of the tags the first
\* three, of the resources all
ExpectedFallback ==
    LET n == IF sel_mode = "tags" /\ Cardinality(MatchingOptions) > 3
             THEN 3 ELSE Cardinality(MatchingOptions)
    IN [j \in 1..n |-> OptionKey(NthOf(MatchingOptions, j))]

\* a call on the fallback path returns the expected value
FallbackIsKeywordMatch ==
    (sel_pc \in {"done", "repeated"} /\ sel_result.path = "fallback") =>
        sel_result.value = ExpectedFallback

\* two calls on the fallback path with the same query and options return the
\* same value
FallbackRepeats ==
    (/\ sel_pc = "done" /\ sel_pc' = "repeated"
     /\ sel_result.path = "fallback" /\ sel_result'.path = "fallback") =>
        sel_result'.value = sel_result.value

\* C20: when the oracle fails, select returns the options that hold a
\* whitespace-separated token of the lowercased query in their lowercased
\* text, in the order of the options, the tags cut to the first 3 and the
\* resources uncut; a repeated call with the same query and options returns
\* the same value.
C20_FallbackDeterministic ==
    /\ []FallbackIsKeywordMatch
    /\ [][FallbackRepeats]_vars

\* a repeated call on the fallback path: four tag names match the query (one
\* of them only after lowercasing), three are returned
C20_Witness ==
    /\ sel_pc = "repeated" /\ sel_mode = "tags" /\ sel_result.path = "fallback"
    /\ Cardinality(MatchingOptions) = 4
    /\ Len(sel_result.value) = 3
    /\ \E k \in MatchingOptions : OptionText(k) # Lower(OptionText(k))


\* C21: a tag selection that took the fallback path holds at most 3 tags,
\* whatever the query and however many of the tags hold a keyword of it.
C21_TagFallbackCap ==
    (sel_pc \in {"done", "repeated"} /\ sel_mode = "tags" /\ sel_result.path = "fallback")
        => Len(sel_result.value) <= TagFallbackCap

\* a first call on the fallback path with four matching tag names
C21_Witness ==
    /\ sel_pc = "done" /\ sel_mode = "tags" /\ sel_result.path = "fallback"
    /\ Cardinality(MatchingOptions) > TagFallbackCap
    /\ Len(sel_result.value) = TagFallbackCap


\* C22: a call of select with no option (no tag name, no candidate) returns
\* the empty selection and does not call the oracle, whatever the query.
C22_EmptyShortCircuit ==
    (sel_pc \in {"done", "repeated"} /\ sel_options = <<>>) =>
        /\ sel_result.value = <<>>
        /\ ~sel_result.oracle_called
        /\ sel_result.path = "empty"

\* a call with a query that has a keyword and no option, where the oracle
\* would have named something had it been asked
C22_Witness ==
    /\ sel_pc = "done" /\ sel_options = <<>>
    /\ Split(Lower(sel_query)) # <<>>
    /\ sel_oracle.kind = "dict" /\ sel_oracle.value # <<>>
    /\ sel_result.value = <<>> /\ ~sel_result.oracle_called


(***************************************************************************)
(* The early-termination rule of merge_streams                             *)
(***************************************************************************)
\* the sentinel of source i has been put and is no longer on the queue
SentinelTaken(i) ==
    /\ tasks[i] \in {"done", "cancelled"}
    /\ ~\E k \in 1..Len(queue) : queue[k].idx = i /\ queue[k].event = None

\* where the loop stands: it is running exactly while the rule has not
\* fired and a source is active; it stopped early only with the primary's
\* sentinel taken and one source active; otherwise it stopped with none active
LoopStopsByRule ==
    /\ early => /\ SentinelTaken(0)
                /\ active_streams = 1
                /\ mpc \in {"gather", "returned"}
    /\ mpc = "loop" => /\ active_streams > 0
                       /\ ~(SentinelTaken(0) /\ active_streams = 1)
    /\ (mpc \in {"gather", "returned"} /\ ~early) => active_streams = 0

\* a sentinel of a secondary taken before the primary's leaves the loop
\* running; so does the primary's sentinel when two or more are still active
LoopKeepsTaking ==
    (mpc = "loop" /\ active_streams' = active_streams - 1) =>
        /\ ~SentinelTaken(0)' => mpc' = "loop"
        /\ active_streams' >= 2 => mpc' = "loop"

\* C23: merge_streams leaves its loop before every sentinel was taken only
\* when the primary's sentinel has been taken and exactly one source is still
\* active; a secondary that ends first, or a primary that ends while two or
\* more others are active, leaves the loop taking events.
C23_EarlyStopOnlyByRule ==
    /\ []LoopStopsByRule
    /\ [][LoopKeepsTaking]_vars

\* three sources: the loop yielded an event of the primary first and an event
\* of a secondary last, and stopped by the rule with the sentinel of one
\* secondary never taken
C23_Witness ==
    /\ n_streams = 3 /\ early /\ mpc = "returned"
    /\ Len(out) >= 2
    /\ out[1].src = 0 /\ out[Len(out)].src # 0
    /\ \E i \in {1, 2} : tasks[i] = "cancelled" /\ ~SentinelTaken(i)


\* the selected ids step 5 would have to look up in the store
CacheMisses == {resource_id \in Range(r_selected_ids) : resource_id \notin r_cache}

\* step 5 takes every selected id from the cache, so its result is the list
\* of selected ids as it stands
ResolvedFromCache ==
    (rpc = "resolve" /\ rpc' = "done" /\ r_outcome' = "returned" /\ ~ResolverRaise)
        => r_final' = r_selected_ids

\* C24: every id step 4 hands to step 5 has an entry in the cache, whatever
\* the oracle answered, also on the fallback path and after a fetch that
\* failed; step 5 never looks a resource up by id.
C24_NoCacheMiss ==
    /\ [](rpc \in {"resolve", "done"} => CacheMisses = {})
    /\ [][ResolvedFromCache]_vars

\* an invocation that lost the fetch of one selected tag, had two ids
\* selected and resolved both
C24_Witness ==
    /\ rpc = "done" /\ r_outcome = "returned"
    /\ r_failed # {}
    /\ Len(r_selected_ids) = 2
    /\ r_final = r_selected_ids


(***************************************************************************)
(* Properties of the request with its progress channel                     *)
(***************************************************************************)
\* the progress events the tools of the request have pushed, as source 1 of
\* merge_streams forwards them
PushedProgress == {Event(1, k) : k \in 1..p_emitted["A"]}

\* C25 (as claimed): when the done frame has been written, every progress
\* event a tool pushed while the agent was running is in the outbound stream.
C25_ProgressBeforeDone ==
    gpc = "finished" => PushedProgress \subseteq Range(sse)


\* the stream of progress events ended on its idle timeout while the agent
\* was still running; what the tool pushed afterwards stays on the progress
\* queue, and the response ends without the early-termination rule
LostAfterIdleTimeout ==
    /\ gpc = "finished" /\ ~early
    /\ ppc["A"] = "ended"
    /\ progress_queue["A"] # <<>>
    /\ delivered["A"] = <<>>


(***************************************************************************)
(* The progress notifications of one invocation                            *)
(***************************************************************************)
\* the milestones, in the order of the steps
Milestones == <<"analyzing", "intent", "tags", "searching", "candidates", "selecting">>

\* the notifications (emit_progress / progress_callback(message)); the
\* resource event of the tool is data for the cards, not a notification
Notifications ==
    LET IsNotification(step) == step # "resource"
    IN SelectSeq(r_progress, IsNotification)

\* the closing notification that fits n milestones: the no-results message
\* of the step that came up empty, or the completion message
ClosingAfter(n) ==
    CASE n = 1 -> "no_tags"
      [] n = 2 -> "no_matching_tags"
      [] n = 4 -> "no_candidates"
      [] n = 5 -> "no_matching_resources"
      [] n = 6 -> "completed"
      [] OTHER -> "none"

\* with a callback attached and no exception reported: milestones in order,
\* then, only when the invocation is over, the one closing that fits
MilestonesThenClosing ==
    (callback = "ok" /\ "error" \notin Range(r_progress)) =>
        \E n \in 0..Len(Milestones) :
            \/ Notifications = SubSeq(Milestones, 1, n)
            \/ /\ Notifications = Append(SubSeq(Milestones, 1, n), ClosingAfter(n))
               /\ rpc = "done"

\* an invocation that ends without passing through the except clause ends
\* with a closing notification
ClosingOnReturn ==
    (callback = "ok" /\ rpc # "done" /\ rpc' = "done" /\ ~ResolverRaise) =>
        \E n \in 1..Len(Milestones) :
            /\ ClosingAfter(n) # "none"
            /\ SelectSeq(r_progress', LAMBDA step : step # "resource")
                  = Append(SubSeq(Milestones, 1, n), ClosingAfter(n))

\* C26: with a progress callback attached and no unexpected exception, the
\* notifications of an invocation are a prefix of the milestones (analysis
\* start, intent analysis, tags found, searching, candidates found, selection
\* made) followed by exactly one closing notification, the completion message
\* or the no-results message of the step that came up empty, and nothing
\* after it.
C26_MilestoneSequence ==
    /\ []MilestonesThenClosing
    /\ [][ClosingOnReturn]_vars

\* the tool went through all five steps: six milestones, then completion
C26_Witness ==
    /\ rpc = "done" /\ callback = "ok" /\ variant = "tool"
    /\ Notifications = Append(Milestones, "completed")
    /\ r_final # <<>>


\* C27 (as claimed): the result of an invocation holds no resource twice.
C27_FinalResultNoDup == NoDup(r_final)


(***************************************************************************)
(* Properties of the tool's result                                         *)
(***************************************************************************)
\* C28 (as claimed): the count of the JSON result is the number of entries of
\* its results list and the count of the resource event of the same search.
C28_CountsAgree ==
    (t_pc = "returned" /\ t_json.has_results) =>
        /\ t_json.count = Len(t_json.results)
        /\ t_event.sent => t_event.count = t_json.count


(***************************************************************************)
(* Properties of create_resource and of deleted tag names                  *)
(***************************************************************************)
\* the step leaves the store as the call that returned r leaves it
LeavesStoreAs(r) ==
    /\ resources' = r.db.resources
    /\ tags' = r.db.tags
    /\ resource_tags' = r.db.resource_tags

\* C29 (as claimed): create_resource is all-or-nothing: a resource row enters
\* the store only through a create_resource call that returned, so a call
\* that raised leaves no row that would make a later call with the same URL
\* fail as already saved.
C29_CreateResourceAllOrNothing ==
    [][Len(resources') > Len(resources) =>
          \E user_id \in Users, url \in Urls, title \in Titles, tag_names \in TagLists :
              LET r == create_resource_result(CurrentDb, url, title, tag_names, user_id)
              IN r.ok /\ LeavesStoreAs(r)]_vars

\* the names of which the user holds a deleted tag and no live tag
DeletedTagNames(user_id) ==
    {tags[k].name : k \in {j \in 1..Len(tags) : tags[j].user_id = user_id /\ tags[j].is_deleted}}
        \ {tags[k].name : k \in {j \in 1..Len(tags) : tags[j].user_id = user_id /\ ~tags[j].is_deleted}}

\* the user's live tags of that name in the store db
LiveTagsNamed(db, user_id, name) ==
    {k \in 1..Len(db.tags) :
        db.tags[k].user_id = user_id /\ db.tags[k].name = name /\ ~db.tags[k].is_deleted}

\* C30 (as claimed): once delete_tag has deleted a user's tag, create_tag with
\* the same name, and create_resource naming it for a URL not yet saved,
\* succeed and leave exactly one live tag of that name for the user.
C30_DeletedNameUsableAgain ==
    \A user_id \in Users : \A name \in DeletedTagNames(user_id) :
        /\ LET r == create_tag_result(CurrentDb, user_id, name)
           IN r.ok /\ Cardinality(LiveTagsNamed(r.db, user_id, name)) = 1
        /\ \A url \in Urls, title \in Titles :
              ExistingResource(CurrentDb, user_id, url) = {} =>
                  LET r == create_resource_result(CurrentDb, url, title, <<name>>, user_id)
                  IN r.ok /\ Cardinality(LiveTagsNamed(r.db, user_id, name)) = 1

====
